---- MODULE Spec2Model ----
(***************************************************************************)
(* A state-machine model of the block grid generator (src/_init_.py):      *)
(* the BlockModelManager caches, the scene's object and material tables,   *)
(* the template builder, the placement engine, the generation pass and     *)
(* the invalidation operators.                                             *)
(*                                                                         *)
(* Names of objects and materials are the strings the program builds, and  *)
(* the host's name tables (bpy.data.objects, bpy.data.materials) are maps  *)
(* from name to datablock: the host keeps names unique by appending        *)
(* ".001", ".002", ... to a name that is taken.                            *)
(***************************************************************************)
EXTENDS Integers, Sequences, FiniteSets, TLC

(***************************************************************************)
(* Bounds of the model.                                                    *)
(***************************************************************************)
\* Longest coordinate list of one generation pass.
MaxCoords == 2
\* Grid x coordinates are 0..MaxX (y = z = 0 in the pass inputs).
MaxX == 1
\* Largest ".NNN" suffix the host hands out before the model stops growing.
MaxSuffix == 1

\* The number of operators the user invokes in a session.
MaxOps == 5

(***************************************************************************)
(* Strings.                                                                *)
(***************************************************************************)
None == "<None>"

StartsWith(s, p) == Len(s) >= Len(p) /\ SubSeq(s, 1, Len(p)) = p

\* os.path.join of two components
Join(a, b) == a \o "/" \o b

Digits == <<"0", "1", "2", "3", "4", "5", "6", "7", "8", "9">>

IsDigit(c) == \E i \in 1..10 : Digits[i] = c

DigitVal(c) == (CHOOSE i \in 1..10 : Digits[i] = c) - 1

\* str.split(sep) for a one-character separator: "a,,b" gives <<"a", "", "b">>.
\* The string is halved, and the last field of the first half continues in
\* the first field of the second.
RECURSIVE Split(_, _)
Split(s, sep) ==
    IF Len(s) = 0 THEN <<"">>
    ELSE IF Len(s) = 1 THEN (IF s = sep THEN <<"", "">> ELSE <<s>>)
    ELSE LET half == Len(s) \div 2
             l == Split(SubSeq(s, 1, half), sep)
             r == Split(SubSeq(s, half + 1, Len(s)), sep)
         IN SubSeq(l, 1, Len(l) - 1) \o <<l[Len(l)] \o r[1]>> \o Tail(r)

\* str.strip() for blanks
RECURSIVE LStrip(_)
LStrip(s) == IF Len(s) > 0 /\ SubSeq(s, 1, 1) = " " THEN LStrip(SubSeq(s, 2, Len(s))) ELSE s

RECURSIVE RStrip(_)
RStrip(s) == IF Len(s) > 0 /\ SubSeq(s, Len(s), Len(s)) = " " THEN RStrip(SubSeq(s, 1, Len(s) - 1)) ELSE s

Strip(s) == LStrip(RStrip(s))

\* int(s): an optional sign and decimal digits, blanks around allowed
AllDigits(s) == Len(s) > 0 /\ \A i \in 1..Len(s) : IsDigit(SubSeq(s, i, i))

IsIntLiteral(s) ==
    LET t == Strip(s) IN
    /\ Len(t) > 0
    /\ IF SubSeq(t, 1, 1) \in {"-", "+"} THEN AllDigits(SubSeq(t, 2, Len(t))) ELSE AllDigits(t)

RECURSIVE DigitsValue(_, _)
DigitsValue(s, acc) ==
    IF Len(s) = 0 THEN acc
    ELSE DigitsValue(SubSeq(s, 2, Len(s)), 10 * acc + DigitVal(SubSeq(s, 1, 1)))

IntValue(s) ==
    LET t == Strip(s) IN
    IF SubSeq(t, 1, 1) = "-" THEN 0 - DigitsValue(SubSeq(t, 2, Len(t)), 0)
    ELSE IF SubSeq(t, 1, 1) = "+" THEN DigitsValue(SubSeq(t, 2, Len(t)), 0)
    ELSE DigitsValue(t, 0)

\* str(counter).zfill(3)
ZFill3(k) == IF k < 10 THEN "00" \o ToString(k) ELSE IF k < 100 THEN "0" \o ToString(k) ELSE ToString(k)

NameWithSuffix(base, k) == IF k = 0 THEN base ELSE base \o "." \o ZFill3(k)

\* re.sub(r'\.\d{3}$', '', name)
StripNumericSuffix(name) ==
    IF /\ Len(name) >= 4
       /\ SubSeq(name, Len(name) - 3, Len(name) - 3) = "."
       /\ \A i \in (Len(name) - 2)..Len(name) : IsDigit(SubSeq(name, i, i))
    THEN SubSeq(name, 1, Len(name) - 4)
    ELSE name

\* The host's rule for a new or renamed datablock: the requested name when it
\* is free, else the requested name with the first free ".NNN" suffix.
FirstFreeSuffix(base, taken) == CHOOSE k \in 0..(Cardinality(taken) + 1) :
    /\ NameWithSuffix(base, k) \notin taken
    /\ \A j \in 0..(k - 1) : NameWithSuffix(base, j) \in taken

UniqueName(base, taken) == NameWithSuffix(base, FirstFreeSuffix(base, taken))

(***************************************************************************)
(* The environment the program reads: the scene's two base paths, the      *)
(* files on disk and the text of the mapping-table files.                  *)
(***************************************************************************)
TextureBase == "tex"

ModelsBase == "mdl"

Ids == {1, 2}

RECURSIVE Commas(_)
Commas(n) == IF n = 0 THEN "" ELSE "," \o Commas(n - 1)

\* A mapping line of 46 fields with fields 0, 6, 43 and 44 filled in.
MappingLine(id, blocktype, main, sub) ==
    ToString(id) \o Commas(6) \o blocktype \o Commas(37) \o main \o "," \o sub \o ","

MappingFileA == "ta.txt"

MappingFileB == "tb.txt"

MappingFileMissing == "missing.txt"

MappingPaths == {MappingFileA, MappingFileB, MappingFileMissing}

FileLines(path) ==
    IF path = MappingFileA
    THEN << "=id,...,blocktype,...",
            "",
            MappingLine(1, "grass", "grass", ""),
            "9,too,short",
            MappingLine(2, "teamspawn", "spawn", "flag") >>
    ELSE IF path = MappingFileB
    THEN << MappingLine(2, "minestone", "", "mushroom") >>
    ELSE << >>

Files ==
    { MappingFileA, MappingFileB,
      "mdl/models/block.obj",
      "mdl/2/teamspawn.obj",
      "mdl/2/mushroom_lod1.obj",
      "tex/1/grass_x.png", "tex/1/grass_y.png", "tex/1/grass_z.png",
      "tex/2/spawn.png",
      "tex/2/mushroom.png" }

\* os.path.exists
Exists(path) == path \in Files

\* The bounding size (x, y, z) of each model file, in thousandths of a unit.
ModelSize(path) ==
    IF path = "mdl/models/block.obj" THEN <<1000, 1000, 1000>>
    ELSE IF path = "mdl/2/teamspawn.obj" THEN <<1000, 2000, 500>>
    ELSE <<500, 500, 2000>>

(***************************************************************************)
(* parse_mapping_table                                                     *)
(***************************************************************************)
AbsentRecord ==
    [present |-> FALSE, position_id |-> 0, blocktype |-> "", main_texture_prefix |-> "",
     submodel_name |-> "", z_texture_prefix |-> ""]

HasComma(s) == \E i \in 1..Len(s) : SubSeq(s, i, i) = ","

\* A record that reads the Z texture prefix from field 43 and the
\* blocktype from field 5.
MappingRecordShifted(parts) ==
    [present |-> TRUE,
     position_id |-> IntValue(parts[1]),
     blocktype |-> parts[6],
     main_texture_prefix |-> parts[44],
     submodel_name |-> parts[45],
     z_texture_prefix |-> parts[44]]

\* The record of one accepted line (lines 678-702).
MappingRecordOf(parts) ==
    LET main0 == parts[44]
        split_parts == Split(main0, ",")
    IN [present |-> TRUE,
        position_id |-> IntValue(parts[1]),
        blocktype |-> parts[7],
        main_texture_prefix |-> IF HasComma(main0) THEN split_parts[1] ELSE main0,
        submodel_name |-> parts[45],
        z_texture_prefix |-> IF HasComma(main0) /\ Len(split_parts) > 1
                             THEN split_parts[2] ELSE parts[45]]

\* Whether a line contributes a record (lines 667-678).
LineAccepted(line) ==
    LET l == Strip(line) IN
    /\ l # ""
    /\ ~StartsWith(l, "=")
    /\ Len(Split(l, ",")) >= 46
    /\ IsIntLiteral(Split(l, ",")[1])

\* A loop over the lines that returns at the first line it rejects and
\* keeps the first record of an id.
RECURSIVE ParseLinesUntilBad(_, _, _)
ParseLinesUntilBad(lines, i, mapping) ==
    IF i > Len(lines) THEN mapping
    ELSE IF LineAccepted(lines[i])
         THEN LET rec == MappingRecordOf(Split(Strip(lines[i]), ","))
              IN ParseLinesUntilBad(lines, i + 1,
                     [k \in (DOMAIN mapping) \cup {rec.position_id} |->
                         IF k \in DOMAIN mapping THEN mapping[k] ELSE rec])
         ELSE mapping

RECURSIVE ParseLines(_, _, _)
ParseLines(lines, i, mapping) ==
    IF i > Len(lines) THEN mapping
    ELSE IF LineAccepted(lines[i])
         THEN LET rec == MappingRecordOf(Split(Strip(lines[i]), ","))
              IN ParseLines(lines, i + 1,
                            [k \in (DOMAIN mapping) \cup {rec.position_id} |->
                                IF k = rec.position_id THEN rec ELSE mapping[k]])
         ELSE ParseLines(lines, i + 1, mapping)

EmptyMapping == [k \in {} |-> AbsentRecord]

\* parse_mapping_table for a path that exists or not and the lines
\* f.readlines() gives for it.
ParseFile(exists, lines) ==
    IF ~exists THEN EmptyMapping ELSE ParseLines(lines, 1, EmptyMapping)

parse_mapping_table(mapping_file_path) ==
    ParseFile(Exists(mapping_file_path), FileLines(mapping_file_path))

(***************************************************************************)
(* ModelConfig                                                             *)
(***************************************************************************)
MinestoneTypes ==
    {"minestone", "stone", "buildblueprint", "regionreplicator", "replicator", "airwall", "copier"}

\* A material-system decision whose minestone branch leaves the four
\* replicator-like blocktypes to the branch after it.
MaterialSystemWithSubmodelOnly(blocktype, main_texture_prefix) ==
    IF blocktype = "teamspawn" THEN "teamspawn_system"
    ELSE IF blocktype \in {"soil", "plantash"} THEN "soil_system"
    ELSE IF blocktype \in {"minestone", "stone", "buildblueprint"} THEN "minestone_system"
    ELSE IF blocktype \in {"replicator", "regionreplicator", "airwall", "copier"}
         THEN (IF main_texture_prefix # "" THEN "minestone_system" ELSE "submodel_only")
    ELSE "default_system"

\* The material-system decision of ModelConfig.__init__ (lines 215-234).
MaterialSystemOf(blocktype, main_texture_prefix) ==
    IF blocktype = "teamspawn" THEN "teamspawn_system"
    ELSE IF blocktype \in {"soil", "plantash"} THEN "soil_system"
    ELSE IF blocktype \in MinestoneTypes THEN "minestone_system"
    ELSE IF blocktype \in {"replicator", "regionreplicator", "airwall", "copier"}
         THEN (IF main_texture_prefix # "" THEN "minestone_system" ELSE "submodel_only")
    ELSE "default_system"

\* The first candidate of an ordered list of paths that is among the files
\* on disk, or None.
RECURSIVE FirstExistingIn(_, _, _)
FirstExistingIn(files, paths, i) ==
    IF i > Len(paths) THEN None
    ELSE IF paths[i] \in files THEN paths[i]
    ELSE FirstExistingIn(files, paths, i + 1)

FirstExisting(paths, i) == FirstExistingIn(Files, paths, i)

\* The paths the submodel probe of ModelConfig.__init__ passes to
\* os.path.exists when none of them exists (lines 288-316).
SubmodelCandidates(position_id, blocktype, submodel_name) ==
    IF submodel_name # "" /\ blocktype # "teamspawn"
    THEN LET possible_names == << submodel_name \o ".obj",
                                  submodel_name \o "_lod1.obj",
                                  submodel_name \o "_lod0.obj" >>
         IN [i \in 1..3 |-> Join(Join(ModelsBase, ToString(position_id)), possible_names[i])]
            \o [i \in 1..3 |-> Join(Join(ModelsBase, "models"), possible_names[i])]
    ELSE << >>

\* A submodel probe that looks in the shared models folder before the
\* folder of the id.
SubmodelPathSharedFirst(files, position_id, blocktype, submodel_name) ==
    IF submodel_name # "" /\ blocktype # "teamspawn"
    THEN LET id_folder == Join(ModelsBase, ToString(position_id))
             possible_names == << submodel_name \o ".obj",
                                  submodel_name \o "_lod1.obj",
                                  submodel_name \o "_lod0.obj" >>
             in_models == FirstExistingIn(files, [i \in 1..3 |-> Join(Join(ModelsBase, "models"), possible_names[i])], 1)
         IN IF in_models # None THEN in_models
            ELSE FirstExistingIn(files, [i \in 1..3 |-> Join(id_folder, possible_names[i])], 1)
    ELSE None

\* The submodel probe of ModelConfig.__init__ (lines 288-320) on a disk
\* that holds the given files.
SubmodelPathIn(files, position_id, blocktype, submodel_name) ==
    IF submodel_name # "" /\ blocktype # "teamspawn"
    THEN LET id_folder == Join(ModelsBase, ToString(position_id))
             possible_names == << submodel_name \o ".obj",
                                  submodel_name \o "_lod1.obj",
                                  submodel_name \o "_lod0.obj" >>
             in_id == FirstExistingIn(files, [i \in 1..3 |-> Join(id_folder, possible_names[i])], 1)
         IN IF in_id # None THEN in_id
            ELSE FirstExistingIn(files, [i \in 1..3 |-> Join(Join(ModelsBase, "models"), possible_names[i])], 1)
    ELSE None

SubmodelPathOf(position_id, blocktype, submodel_name) ==
    SubmodelPathIn(Files, position_id, blocktype, submodel_name)

\* need_main_model without the teamspawn override of lines 281-286.
NeedMainModelByFields(blocktype, main_texture_prefix, submodel_name, material_system) ==
    IF material_system = "submodel_only" THEN FALSE
    ELSE IF submodel_name # "" THEN main_texture_prefix # ""
    ELSE main_texture_prefix # ""

\* need_main_model that a submodel name switches off.
NeedMainModelUnlessSubmodel(blocktype, main_texture_prefix, submodel_name, material_system) ==
    IF blocktype = "teamspawn" THEN TRUE
    ELSE IF material_system = "submodel_only" THEN FALSE
    ELSE submodel_name = "" /\ main_texture_prefix # ""

\* need_main_model of ModelConfig.__init__ (lines 255-286).
NeedMainModelOf(blocktype, main_texture_prefix, submodel_name, material_system) ==
    LET by_fields == IF submodel_name # ""
                     THEN (IF main_texture_prefix = "" THEN FALSE ELSE TRUE)
                     ELSE (IF main_texture_prefix # "" THEN TRUE ELSE FALSE)
        by_system == IF material_system = "submodel_only" THEN FALSE ELSE by_fields
    IN IF blocktype = "teamspawn" THEN TRUE ELSE by_system

\* ModelConfig(position_id, mapping_data, texture_base_path, models_base_path)
\* on a disk that holds the given files.
ModelConfigOn(files, position_id, mapping_data) ==
    LET blocktype == IF mapping_data.present THEN mapping_data.blocktype ELSE ""
        main_texture_prefix == IF mapping_data.present THEN mapping_data.main_texture_prefix ELSE ""
        submodel_name0 == IF mapping_data.present THEN mapping_data.submodel_name ELSE ""
        z_texture_prefix == IF mapping_data.present THEN mapping_data.z_texture_prefix ELSE ""
        material_system == MaterialSystemOf(blocktype, main_texture_prefix)
        submodel_name == IF blocktype = "teamspawn" THEN "" ELSE submodel_name0
    IN [position_id |-> position_id,
        blocktype |-> blocktype,
        main_texture_prefix |-> main_texture_prefix,
        submodel_name |-> submodel_name,
        z_texture_prefix |-> z_texture_prefix,
        material_system |-> material_system,
        main_model_path |-> IF blocktype = "teamspawn"
                            THEN Join(Join(ModelsBase, ToString(position_id)), "teamspawn.obj")
                            ELSE Join(Join(ModelsBase, "models"), "block.obj"),
        submodel_path |-> SubmodelPathIn(files, position_id, blocktype, submodel_name),
        need_main_model |-> NeedMainModelOf(blocktype, main_texture_prefix, submodel_name, material_system)]

ModelConfig(position_id, mapping_data) == ModelConfigOn(Files, position_id, mapping_data)

\* A main model wanted whenever its file exists.
has_main_model_file(cfg) == Exists(cfg.main_model_path)

has_main_model(cfg) == cfg.need_main_model /\ Exists(cfg.main_model_path)

has_submodel(cfg) ==
    IF cfg.blocktype = "teamspawn" THEN FALSE
    ELSE cfg.submodel_path # None /\ Exists(cfg.submodel_path)

(***************************************************************************)
(* Texture lookup of a configuration                                       *)
(***************************************************************************)
TexFolder(cfg) == Join(TextureBase, ToString(cfg.position_id))

\* The face-to-suffix permutation shared by the default and minestone systems.
FaceFileName(prefix, face_type) ==
    IF face_type = "x" THEN prefix \o "_z.png"
    ELSE IF face_type = "y" THEN prefix \o "_x.png"
    ELSE IF face_type = "z" THEN prefix \o "_y.png"
    ELSE prefix \o "_" \o face_type \o ".png"

get_default_texture_path(cfg, face_type) ==
    LET path == Join(TexFolder(cfg), FaceFileName(cfg.main_texture_prefix, face_type))
    IN IF Exists(path) THEN path ELSE None

\* ModelConfig._get_minestone_texture_path on a disk that holds the given
\* files.
get_minestone_texture_path_on(files, cfg, face_type) ==
    LET expected == IF face_type \in {"x", "y", "z"}
                    THEN FaceFileName(cfg.main_texture_prefix, face_type)
                    ELSE cfg.main_texture_prefix \o ".png"
    IN FirstExistingIn(files, << Join(TexFolder(cfg), expected),
                                 Join(TexFolder(cfg), cfg.main_texture_prefix \o ".png") >>, 1)

get_minestone_texture_path(cfg, face_type) == get_minestone_texture_path_on(Files, cfg, face_type)

get_soil_texture_path(cfg, face_type) ==
    LET f == TexFolder(cfg)
        p == cfg.main_texture_prefix
    IN IF face_type = "z"
       THEN LET special == IF cfg.z_texture_prefix # "" /\ Exists(Join(f, cfg.z_texture_prefix \o ".png"))
                           THEN Join(f, cfg.z_texture_prefix \o ".png") ELSE None
            IN IF special # None THEN special
               ELSE FirstExisting(<< Join(f, p \o "_y.png"), Join(f, p \o ".png"),
                                     Join(f, p \o "_z.png"), Join(f, "blocks.grass.png"),
                                     Join(f, "blockd.grass.png") >>, 1)
       ELSE FirstExisting(<< Join(f, p \o ".png"), Join(f, p \o "_x.png"), Join(f, p \o "_y.png"),
                             Join(f, "blocks.grass.png"), Join(f, "blockd.grass.png") >>, 1)

get_teamspawn_texture_path(cfg) ==
    LET f == TexFolder(cfg)
        p == cfg.main_texture_prefix
    IN FirstExisting(<< Join(f, p \o ".png"), Join(f, p \o "_x.png"), Join(f, p \o "_y.png"),
                        Join(f, p \o "_z.png"), Join(f, "teamspawn.png"),
                        Join(f, "teamspawn0.png") >>, 1)

get_texture_path(cfg, face_type) ==
    IF cfg.main_texture_prefix = "" THEN None
    ELSE IF cfg.material_system = "teamspawn_system" THEN get_teamspawn_texture_path(cfg)
    ELSE IF cfg.material_system = "soil_system" THEN get_soil_texture_path(cfg, face_type)
    ELSE IF cfg.material_system = "minestone_system" THEN get_minestone_texture_path(cfg, face_type)
    ELSE IF cfg.material_system = "submodel_only" THEN None
    ELSE get_default_texture_path(cfg, face_type)

get_submodel_texture_path(cfg) ==
    IF cfg.submodel_name = "" \/ cfg.blocktype = "teamspawn" THEN None
    ELSE LET n == cfg.submodel_name \o ".png"
         IN FirstExisting(<< Join(TexFolder(cfg), n),
                             Join(TextureBase, n),
                             Join(Join(ModelsBase, "models"), n),
                             Join(Join(TexFolder(cfg), "models"), n) >>, 1)

get_submodel_emission_texture_path(cfg) ==
    IF cfg.submodel_name = "" \/ cfg.blocktype = "teamspawn" THEN None
    ELSE LET n == cfg.submodel_name
             f == TexFolder(cfg)
         IN FirstExisting(<< Join(f, n \o "_emi.png"), Join(f, n \o "_emission.png"),
                             Join(f, n \o "_emit.png"), Join(f, n \o "_light.png"),
                             Join(f, n \o "_glow.png"),
                             Join(TextureBase, n \o "_emi.png"),
                             Join(Join(ModelsBase, "models"), n \o "_emi.png"),
                             Join(Join(f, "models"), n \o "_emi.png") >>, 1)

(***************************************************************************)
(* State                                                                   *)
(***************************************************************************)
VARIABLES
    templates,           \* manager._templates: position id -> name of the template container
    model_configs,       \* manager._model_configs: position id -> ModelConfig
    mapping_table,       \* manager._mapping_table: [none, entries]
    mapping_file_path,   \* manager._mapping_file_path
    materials,           \* manager._materials: material key -> name of the material
    scene_mapping_path,  \* scene.mapping_table_path
    settings,            \* scene.block_generator_settings
    objects,             \* bpy.data.objects: name -> object
    bpy_materials,       \* bpy.data.materials: name -> material
    orphan_refs,         \* materials referenced by meshes whose object was removed
    pass,                \* the generation pass in progress, or idle
    last,                \* what the last operation returned and loaded
    ops                  \* the number of operators invoked so far

vars == << templates, model_configs, mapping_table, mapping_file_path, materials,
           scene_mapping_path, settings, objects, bpy_materials, orphan_refs, pass, last, ops >>

\* f with key k bound to v
Put(f, k, v) == [x \in (DOMAIN f) \cup {k} |-> IF x = k THEN v ELSE f[x]]

\* f without the keys in ks
Drop(f, ks) == [x \in (DOMAIN f) \ ks |-> f[x]]

EmptyMap == [x \in {} |-> None]

\* manager.get_mapping_for_id
get_mapping_for_id(table, position_id) ==
    IF ~table.none /\ DOMAIN table.entries # {} /\ position_id \in DOMAIN table.entries
    THEN table.entries[position_id]
    ELSE AbsentRecord

(***************************************************************************)
(* Materials.  A material world mw is [mats, cache]: bpy.data.materials    *)
(* and manager._materials.  Each create_or_get operator gives the world    *)
(* after the call and the material it returns.                             *)
(***************************************************************************)
Material(tex, emi) == [tex |-> tex, emi |-> emi]

get_default_material_name(position_id) == "BlockMat_Default_" \o ToString(position_id)

get_teamspawn_material_name(position_id) == "BlockMat_Teamspawn_" \o ToString(position_id)

FaceTag(face_type) == IF face_type = "x" THEN "X" ELSE IF face_type = "y" THEN "Y" ELSE "Z"

get_material_name_for_face(position_id, face_type) ==
    "BlockMat_" \o FaceTag(face_type) \o "_" \o ToString(position_id)

get_material_name_for_submodel(position_id, submodel_name, has_emission) ==
    "BlockMat_Sub_" \o ToString(position_id) \o "_" \o submodel_name
        \o (IF has_emission THEN "_emi" ELSE "")

\* bpy.data.materials.new(name) followed by manager.set_material(key, material)
NewMaterial(mw, mat_name, mat) ==
    LET actual == UniqueName(mat_name, DOMAIN mw.mats)
    IN [mats |-> Put(mw.mats, actual, mat),
        cache |-> Put(mw.cache, mat_name, actual),
        mat |-> actual]

\* A lookup that takes the cached material only when it has the texture
\* asked for.
CachedWithSameTexture(mw, mat_name, mat) ==
    IF mat_name \in DOMAIN mw.cache /\ mw.mats[mw.cache[mat_name]] = mat
    THEN [mats |-> mw.mats, cache |-> mw.cache, mat |-> mw.cache[mat_name]]
    ELSE NewMaterial(mw, mat_name, mat)

\* The cache-only lookup shared by the default, teamspawn and submodel
\* materials (lines 1494-1504, 1550-1572, 1590-1652).
CachedOrNew(mw, mat_name, mat) ==
    IF mat_name \in DOMAIN mw.cache
    THEN [mats |-> mw.mats, cache |-> mw.cache, mat |-> mw.cache[mat_name]]
    ELSE NewMaterial(mw, mat_name, mat)

create_or_get_default_material(mw, position_id) ==
    CachedOrNew(mw, get_default_material_name(position_id), Material(None, None))

create_or_get_teamspawn_material(mw, position_id, texture_path) ==
    CachedOrNew(mw, get_teamspawn_material_name(position_id), Material(texture_path, None))

create_or_get_submodel_material(mw, position_id, diffuse, emission, submodel_name) ==
    LET has_emission == emission # None /\ Exists(emission)
    IN CachedOrNew(mw, get_material_name_for_submodel(position_id, submodel_name, has_emission),
                   Material(diffuse, IF has_emission THEN emission ELSE None))

\* create_or_get_face_material also looks the name up in bpy.data.materials
\* before it creates (lines 1465-1484).
create_or_get_face_material(mw, position_id, texture_path, face_type) ==
    LET mat_name == get_material_name_for_face(position_id, face_type)
    IN IF mat_name \in DOMAIN mw.cache
       THEN [mats |-> mw.mats, cache |-> mw.cache, mat |-> mw.cache[mat_name]]
       ELSE IF mat_name \in DOMAIN mw.mats
            THEN [mats |-> mw.mats, cache |-> Put(mw.cache, mat_name, mat_name), mat |-> mat_name]
            ELSE NewMaterial(mw, mat_name, Material(texture_path, None))

\* A step of a material system: the world and the slots so far; a material is
\* created when wanted and appended to the slots when used.
Step(st, made, used) ==
    [mats |-> made.mats, cache |-> made.cache,
     slots |-> IF used THEN Append(st.slots, made.mat) ELSE st.slots]

Start(mw) == [mats |-> mw.mats, cache |-> mw.cache, slots |-> << >>]

\* The face material of a texture that was found, appended to the slots.
FaceStep(st, position_id, texture_path, face_type) ==
    IF texture_path # None
    THEN Step(st, create_or_get_face_material(st, position_id, texture_path, face_type), TRUE)
    ELSE st

\* The default material, created in any case and appended when used.
DefaultStep(st, position_id, used) ==
    Step(st, create_or_get_default_material(st, position_id), used)

TeamspawnStep(st, position_id, texture_path) ==
    IF texture_path # None
    THEN Step(st, create_or_get_teamspawn_material(st, position_id, texture_path), TRUE)
    ELSE st

TeamspawnSlots(mw, position_id, texture_path) ==
    DefaultStep(TeamspawnStep(Start(mw), position_id, texture_path), position_id,
                texture_path = None)

apply_teamspawn_material_system(mw, position_id, cfg) ==
    TeamspawnSlots(mw, position_id, get_teamspawn_texture_path(cfg))

\* The default material is created after the face materials and used only
\* when there is no face material (lines 1756-1768).
SoilSlots(mw, position_id, main_texture_path, z_texture_path) ==
    DefaultStep(FaceStep(FaceStep(Start(mw), position_id, main_texture_path, "x"),
                         position_id, z_texture_path, "z"),
                position_id, main_texture_path = None /\ z_texture_path = None)

SoilZ(main_texture_path, z0) ==
    IF z0 = None /\ main_texture_path # None THEN main_texture_path ELSE z0

apply_soil_material_system(mw, position_id, cfg) ==
    SoilSlots(mw, position_id, get_texture_path(cfg, "x"),
              SoilZ(get_texture_path(cfg, "x"), get_texture_path(cfg, "z")))

MinestoneSlots(mw, position_id, x, y, z) ==
    DefaultStep(FaceStep(FaceStep(FaceStep(Start(mw), position_id, x, "x"),
                                  position_id, y, "y"),
                         position_id, z, "z"),
                position_id, x = None /\ y = None /\ z = None)

apply_minestone_material_system(mw, position_id, cfg) ==
    MinestoneSlots(mw, position_id, get_texture_path(cfg, "x"), get_texture_path(cfg, "y"),
                   get_texture_path(cfg, "z"))

\* With any texture found, each of the three face materials is made, with
\* the texture or without, and the default material after them.
FaceAlways(st, position_id, texture_path, face_type) ==
    Step(st, create_or_get_face_material(st, position_id, texture_path, face_type), TRUE)

DefaultSlots(mw, position_id, x, y, z) ==
    IF x = None /\ y = None /\ z = None
    THEN DefaultStep(Start(mw), position_id, TRUE)
    ELSE DefaultStep(FaceAlways(FaceAlways(FaceAlways(Start(mw), position_id, x, "x"),
                                           position_id, y, "y"),
                                position_id, z, "z"),
                     position_id, TRUE)

apply_default_material_system(mw, position_id, cfg) ==
    DefaultSlots(mw, position_id, get_texture_path(cfg, "x"), get_texture_path(cfg, "y"),
                 get_texture_path(cfg, "z"))

\* apply_main_model_materials: the slots of the main model's mesh
apply_main_model_materials(mw, position_id, cfg) ==
    IF cfg.material_system = "teamspawn_system" THEN apply_teamspawn_material_system(mw, position_id, cfg)
    ELSE IF cfg.material_system = "soil_system" THEN apply_soil_material_system(mw, position_id, cfg)
    ELSE IF cfg.material_system = "minestone_system" THEN apply_minestone_material_system(mw, position_id, cfg)
    ELSE IF cfg.material_system = "submodel_only" THEN Start(mw)
    ELSE apply_default_material_system(mw, position_id, cfg)

SubmodelStep(st, position_id, cfg, submodel_name) ==
    Step(st, create_or_get_submodel_material(st, position_id, get_submodel_texture_path(cfg),
                 get_submodel_emission_texture_path(cfg), submodel_name), TRUE)

\* apply_submodel_materials: the submodel name is read from the mapping
\* record, the texture paths from the cached configuration
apply_submodel_materials(mw, position_id, cfg, mapping_data) ==
    IF mapping_data.present /\ mapping_data.submodel_name # ""
           /\ mapping_data.blocktype # "teamspawn"
    THEN SubmodelStep(Start(mw), position_id, cfg, mapping_data.submodel_name)
    ELSE DefaultStep(Start(mw), position_id, TRUE)

(***************************************************************************)
(* Scene objects.  A world w is [objs, mats, cache]: bpy.data.objects,     *)
(* bpy.data.materials and manager._materials.  Lengths are in thousandths  *)
(* of a unit, rotations in quarter turns.                                  *)
(***************************************************************************)
Zero3 == <<0, 0, 0>>

Object(type, parent, slots, size, role) ==
    [type |-> type, parent |-> parent, slots |-> slots, size |-> size, role |-> role,
     position_id |-> -1, grid |-> Zero3, location |-> Zero3, rotation |-> Zero3,
     direction |-> None]

Max3(v) == IF v[1] >= v[2] /\ v[1] >= v[3] THEN v[1] ELSE IF v[2] >= v[3] THEN v[2] ELSE v[3]

\* A scaling factor that divides the original size by the unit size.
calculate_inverse_scaling_factor(original_size, scale_mode, custom_scale_factor, base_block_size) ==
    IF scale_mode = "ONE_METER"
    THEN (IF original_size > 1 THEN <<original_size, base_block_size>> ELSE <<1, 1>>)
    ELSE IF scale_mode = "CUSTOM" THEN <<custom_scale_factor, 1000>>
    ELSE <<1, 1>>

\* calculate_scaling_factor, as the fraction <<numerator, denominator>>
calculate_scaling_factor(original_size, scale_mode, custom_scale_factor, base_block_size) ==
    IF scale_mode = "ONE_METER"
    THEN (IF original_size > 1 THEN <<base_block_size, original_size>> ELSE <<1, 1>>)
    ELSE IF scale_mode = "CUSTOM" THEN <<custom_scale_factor, 1000>>
    ELSE <<1, 1>>

\* The size a loaded model records after scaling (lines 2141-2160).
ScaledSize(size, st) ==
    LET f == calculate_scaling_factor(Max3(size), st.scale_mode, st.custom_scale_factor,
                                      st.base_block_size)
    IN [i \in 1..3 |-> (size[i] * f[1]) \div f[2]]

\* obj.children: the host lists objects by name, so a main model comes
\* before a submodel
ChildrenOf(objs, parent) == {n \in DOMAIN objs : objs[n].parent = parent}

FirstChild(objs, parent) ==
    LET cs == ChildrenOf(objs, parent)
    IN IF \E n \in cs : objs[n].role = "main"
       THEN CHOOSE n \in cs : objs[n].role = "main"
       ELSE CHOOSE n \in cs : TRUE

\* The loaded object, linked to the scene under a free name.
AddModel(w, name, m, size, role) ==
    [objs |-> Put(w.objs, name, Object("MESH", None, m.slots, size, role)),
     mats |-> m.mats, cache |-> m.cache, obj |-> name]

\* load_and_setup_model: the world after the load and the name of the loaded
\* object, or None when the file does not exist
load_and_setup_model(w, model_path, model_name, position_id, cfg, mapping_data, is_main_model, st) ==
    IF ~Exists(model_path)
    THEN [objs |-> w.objs, mats |-> w.mats, cache |-> w.cache, obj |-> None]
    ELSE AddModel(w, UniqueName(model_name, DOMAIN w.objs),
                  IF is_main_model
                  THEN apply_main_model_materials(w, position_id, cfg)
                  ELSE apply_submodel_materials(w, position_id, cfg, mapping_data),
                  ScaledSize(ModelSize(model_path), st),
                  IF is_main_model THEN "main" ELSE "sub")

\* The caches and the scene as one record, for the operations that change
\* several of them.
Snapshot ==
    [templates |-> templates, model_configs |-> model_configs, objs |-> objects,
     mats |-> bpy_materials, cache |-> materials]

SetParent(objs, names, parent) ==
    [n \in DOMAIN objs |-> IF n \in names THEN [objs[n] EXCEPT !.parent = parent] ELSE objs[n]]

\* A lookup that never finds the template.
TemplateCacheMiss(s, position_id) == FALSE

\* The cache hit of create_template_for_position_id (lines 2209-2213).
TemplateCacheHit(s, position_id) == position_id \in DOMAIN s.templates

\* The main model, when the configuration has one (lines 2247-2264).
LoadMain(s, position_id, cfg, mapping_data, st) ==
    IF has_main_model(cfg)
    THEN load_and_setup_model([objs |-> s.objs, mats |-> s.mats, cache |-> s.cache],
             cfg.main_model_path, "BlockMain_" \o ToString(position_id), position_id, cfg,
             mapping_data, TRUE, st)
    ELSE [objs |-> s.objs, mats |-> s.mats, cache |-> s.cache, obj |-> None]

\* The submodel, when the configuration has one (lines 2267-2284).
LoadSub(w1, position_id, cfg, mapping_data, st) ==
    IF has_submodel(cfg)
    THEN load_and_setup_model(w1, cfg.submodel_path, "BlockSub_" \o ToString(position_id),
             position_id, cfg, mapping_data, FALSE, st)
    ELSE [w1 EXCEPT !.obj = None]

\* A container made and stored whether or not a model was loaded.
StoreTemplateAlways(s, position_id, cfg, main_model, w2, container) ==
    [templates |-> Put(s.templates, position_id, container),
     model_configs |-> Put(s.model_configs, position_id, cfg),
     objs |-> SetParent(Put(w2.objs, container, Object("EMPTY", None, << >>, Zero3, "template")),
                        {main_model, w2.obj} \ {None}, container),
     mats |-> w2.mats,
     cache |-> w2.cache,
     result |-> container,
     loaded |-> (IF main_model # None THEN {cfg.main_model_path} ELSE {})
                   \cup (IF w2.obj # None THEN {cfg.submodel_path} ELSE {})]

\* The container and the template cache entry (lines 2286-2322): made only
\* when a main model or a submodel was loaded.
StoreTemplate(s, position_id, cfg, main_model, w2, container) ==
    IF main_model # None \/ w2.obj # None
    THEN [templates |-> Put(s.templates, position_id, container),
          model_configs |-> Put(s.model_configs, position_id, cfg),
          objs |-> SetParent(Put(w2.objs, container, Object("EMPTY", None, << >>, Zero3, "template")),
                             {main_model, w2.obj} \ {None}, container),
          mats |-> w2.mats,
          cache |-> w2.cache,
          result |-> container,
          loaded |-> (IF main_model # None THEN {cfg.main_model_path} ELSE {})
                        \cup (IF w2.obj # None THEN {cfg.submodel_path} ELSE {})]
    ELSE [templates |-> s.templates,
          model_configs |-> Put(s.model_configs, position_id, cfg),
          objs |-> w2.objs, mats |-> w2.mats, cache |-> w2.cache,
          result |-> None, loaded |-> {}]

ContainerName(position_id, objs) ==
    UniqueName("BlockTemplate_" \o ToString(position_id), DOMAIN objs)

AfterMain(s, position_id, cfg, mapping_data, st, w1) ==
    StoreTemplate(s, position_id, cfg, w1.obj, LoadSub(w1, position_id, cfg, mapping_data, st),
                  ContainerName(position_id, LoadSub(w1, position_id, cfg, mapping_data, st).objs))

BuildWith(s, position_id, cfg, mapping_data, st) ==
    AfterMain(s, position_id, cfg, mapping_data, st,
              LoadMain(s, position_id, cfg, mapping_data, st))

\* The build of create_template_for_position_id after a cache miss
\* (lines 2215-2322): the configuration is stored first, then the models
\* are loaded, then the container is made and stored.
BuildTemplate(s, position_id, table, st) ==
    BuildWith(s, position_id, ModelConfig(position_id, get_mapping_for_id(table, position_id)),
              get_mapping_for_id(table, position_id), st)

\* A lookup that takes the cached template only while the configuration it
\* was built from agrees with the record of the mapping table.
create_template_for_current_record(s, position_id, table, st) ==
    IF /\ TemplateCacheHit(s, position_id)
       /\ position_id \in DOMAIN s.model_configs
       /\ s.model_configs[position_id]
             = ModelConfig(position_id, get_mapping_for_id(table, position_id))
    THEN [templates |-> s.templates, model_configs |-> s.model_configs, objs |-> s.objs,
          mats |-> s.mats, cache |-> s.cache,
          result |-> s.templates[position_id], loaded |-> {}]
    ELSE BuildTemplate(s, position_id, table, st)

\* create_template_for_position_id
create_template_for_position_id(s, position_id, table, st) ==
    IF TemplateCacheHit(s, position_id)
    THEN [templates |-> s.templates, model_configs |-> s.model_configs, objs |-> s.objs,
          mats |-> s.mats, cache |-> s.cache,
          result |-> s.templates[position_id], loaded |-> {}]
    ELSE BuildTemplate(s, position_id, table, st)

(***************************************************************************)
(* Placement                                                               *)
(***************************************************************************)
\* get_rotation_for_direction, in quarter turns
get_rotation_for_direction(direction_mode) ==
    IF direction_mode = "EAST" THEN 0
    ELSE IF direction_mode = "SOUTH" THEN 1
    ELSE IF direction_mode = "WEST" THEN 2
    ELSE IF direction_mode = "NORTH" THEN 3
    ELSE 0

\* A world coordinate that lifts the model by half its height in both
\* positioning modes.
get_world_coordinate_always_centered(grid_coord, base_block_size, size, direction_mode, use_model_center, adjacent_mode) ==
    LET world_x == IF adjacent_mode THEN grid_coord[1] * size[1] ELSE grid_coord[1] * base_block_size
        world_y == IF adjacent_mode THEN grid_coord[2] * size[2] ELSE grid_coord[2] * base_block_size
        world_z == IF adjacent_mode THEN grid_coord[3] * size[3] ELSE grid_coord[3] * base_block_size
    IN <<world_x, world_y, world_z + (size[3] \div 2)>>

get_world_coordinate_for_model(grid_coord, base_block_size, size, direction_mode, use_model_center, adjacent_mode) ==
    LET world_x == IF adjacent_mode THEN grid_coord[1] * size[1] ELSE grid_coord[1] * base_block_size
        world_y == IF adjacent_mode THEN grid_coord[2] * size[2] ELSE grid_coord[2] * base_block_size
        world_z == IF adjacent_mode THEN grid_coord[3] * size[3] ELSE grid_coord[3] * base_block_size
    IN <<world_x, world_y, IF use_model_center THEN world_z + (size[3] \div 2) ELSE world_z>>

BlockName(position_id, x, y, z) ==
    "Block_" \o ToString(position_id) \o "_" \o ToString(x) \o "_" \o ToString(y)
        \o "_" \o ToString(z)

ChildName(prefix, position_id, x, y, z) ==
    prefix \o ToString(position_id) \o "_" \o ToString(x) \o "_" \o ToString(y)
        \o "_" \o ToString(z)

\* An existence check that looks for the template's name instead of the
\* block's.
BlockExistsByTemplateName(objs, position_id, x, y, z) ==
    ("BlockTemplate_" \o BlockName(position_id, x, y, z)) \in DOMAIN objs

\* The existence check of create_block_from_template (lines 2358-2363).
BlockExists(objs, position_id, x, y, z) == BlockName(position_id, x, y, z) \in DOMAIN objs

\* The duplication of create_block_from_template (lines 2402-2483): the
\* template container and its children are duplicated, the copy of the
\* container is renamed to the block name and the copies of the children to
\* BlockMain_/BlockSub_ names of the coordinate.
DuplicateTemplate(objs, template_container, position_id, x, y, z, location, rotation_y, direction_mode) ==
    LET new_container == UniqueName(BlockName(position_id, x, y, z), DOMAIN objs)
        with_container == Put(objs, new_container,
            [Object("EMPTY", None, << >>, Zero3, "block") EXCEPT
                !.position_id = position_id, !.grid = <<x, y, z>>,
                !.location = location, !.rotation = <<0, rotation_y, 0>>,
                !.direction = direction_mode])
        mains == {n \in ChildrenOf(objs, template_container) : objs[n].role = "main"}
        subs == {n \in ChildrenOf(objs, template_container) : objs[n].role = "sub"}
        with_main == IF mains = {} THEN with_container
                     ELSE LET src == CHOOSE n \in mains : TRUE
                          IN Put(with_container,
                                 UniqueName(ChildName("BlockMain_", position_id, x, y, z),
                                            DOMAIN with_container),
                                 [objs[src] EXCEPT !.parent = new_container])
        with_sub == IF subs = {} THEN with_main
                    ELSE LET src == CHOOSE n \in subs : TRUE
                         IN Put(with_main,
                                UniqueName(ChildName("BlockSub_", position_id, x, y, z),
                                           DOMAIN with_main),
                                [objs[src] EXCEPT !.parent = new_container])
    IN [objs |-> with_sub, result |-> new_container]

\* A placement that, for an id without a template, falls back on the
\* template of another id.
create_block_from_any_template(objs, tmpl, position_id, x, y, z, base_block_size, direction_mode, use_model_center, adjacent_mode) ==
    IF BlockExists(objs, position_id, x, y, z)
    THEN [objs |-> objs, result |-> BlockName(position_id, x, y, z)]
    ELSE IF DOMAIN tmpl = {}
    THEN [objs |-> objs, result |-> None]
    ELSE LET t == IF position_id \in DOMAIN tmpl THEN tmpl[position_id]
                  ELSE tmpl[CHOOSE k \in DOMAIN tmpl : TRUE]
         IN IF ChildrenOf(objs, t) = {}
            THEN [objs |-> objs, result |-> None]
            ELSE DuplicateTemplate(objs, t, position_id, x, y, z,
                     get_world_coordinate_for_model(<<x, y, z>>, base_block_size,
                         objs[FirstChild(objs, t)].size, direction_mode, use_model_center,
                         adjacent_mode),
                     get_rotation_for_direction(direction_mode), direction_mode)

\* A placement that looks the template up before it checks whether the
\* instance exists.
create_block_template_lookup_first(objs, tmpl, position_id, x, y, z, base_block_size, direction_mode, use_model_center, adjacent_mode) ==
    IF position_id \notin DOMAIN tmpl
    THEN [objs |-> objs, result |-> None]
    ELSE IF BlockExists(objs, position_id, x, y, z)
    THEN [objs |-> objs, result |-> BlockName(position_id, x, y, z)]
    ELSE IF ChildrenOf(objs, tmpl[position_id]) = {}
    THEN [objs |-> objs, result |-> None]
    ELSE LET size == objs[FirstChild(objs, tmpl[position_id])].size
             location == get_world_coordinate_for_model(<<x, y, z>>, base_block_size, size,
                             direction_mode, use_model_center, adjacent_mode)
         IN DuplicateTemplate(objs, tmpl[position_id], position_id, x, y, z, location,
                              get_rotation_for_direction(direction_mode), direction_mode)

\* create_block_from_template: the objects after the call and the block it
\* returns, or None
create_block_from_template(objs, tmpl, position_id, x, y, z, base_block_size, direction_mode, use_model_center, adjacent_mode) ==
    IF BlockExists(objs, position_id, x, y, z)
    THEN [objs |-> objs, result |-> BlockName(position_id, x, y, z)]
    ELSE IF position_id \notin DOMAIN tmpl
    THEN [objs |-> objs, result |-> None]
    ELSE IF ChildrenOf(objs, tmpl[position_id]) = {}
    THEN [objs |-> objs, result |-> None]
    ELSE LET size == objs[FirstChild(objs, tmpl[position_id])].size
             location == get_world_coordinate_for_model(<<x, y, z>>, base_block_size, size,
                             direction_mode, use_model_center, adjacent_mode)
         IN DuplicateTemplate(objs, tmpl[position_id], position_id, x, y, z, location,
                              get_rotation_for_direction(direction_mode), direction_mode)

(***************************************************************************)
(* BlockModelManager: the invalidation methods, on the manager's caches    *)
(* as one record.                                                          *)
(***************************************************************************)
Manager ==
    [templates |-> templates, model_configs |-> model_configs, materials |-> materials,
     mapping_table |-> mapping_table, mapping_file_path |-> mapping_file_path]

NoTable == [none |-> TRUE, entries |-> EmptyMapping]

EmptyTemplates == [k \in {} |-> None]

EmptyConfigs == [k \in {} |-> ModelConfig(0, AbsentRecord)]

\* An invalidation that takes the material cache along.
clear_templates_configs_and_materials(m) ==
    [m EXCEPT !.templates = EmptyTemplates, !.model_configs = EmptyConfigs,
              !.materials = EmptyMap]

\* An invalidation that forgets the templates.
clear_configs_and_materials(m) ==
    [m EXCEPT !.model_configs = EmptyConfigs, !.materials = EmptyMap]

clear_templates_and_configs(m) ==
    [m EXCEPT !.templates = EmptyTemplates, !.model_configs = EmptyConfigs]

clear_all_except_mapping(m) ==
    [m EXCEPT !.templates = EmptyTemplates, !.model_configs = EmptyConfigs,
              !.materials = EmptyMap]

clear_all(m) ==
    [m EXCEPT !.templates = EmptyTemplates, !.model_configs = EmptyConfigs,
              !.materials = EmptyMap, !.mapping_table = NoTable,
              !.mapping_file_path = None]

\* manager.set_mapping_table
ParsedTables == [p \in MappingPaths |-> parse_mapping_table(p)]

set_mapping_table(m, path) ==
    [m EXCEPT !.mapping_file_path = path,
              !.mapping_table = [none |-> FALSE, entries |-> ParsedTables[path]]]

\* "not manager._mapping_table": None and the empty dict alike
TableFalsy(table) == table.none \/ DOMAIN table.entries = {}

(***************************************************************************)
(* Scene helpers of the operators                                          *)
(***************************************************************************)
\* bpy.data.objects.remove for a set of names: the children of a removed
\* object lose their parent; the mesh of a removed object stays behind as
\* an orphan datablock that still uses its materials.
RemoveObjects(objs, names) ==
    LET kept == Drop(objs, names)
    IN [n \in DOMAIN kept |->
           IF kept[n].parent \in names THEN [kept[n] EXCEPT !.parent = None] ELSE kept[n]]

SlotsOf(objs, names) == UNION {{objs[n].slots[i] : i \in 1..Len(objs[n].slots)} : n \in names}

\* material.users > 0
Used(objs, orphans, mat) == mat \in SlotsOf(objs, DOMAIN objs) \cup orphans

IsBlockName(name) == StartsWith(name, "Block_") /\ ~StartsWith(name, "BlockTemplate_")

IsTemplateName(name) ==
    StartsWith(name, "BlockTemplate_") \/ StartsWith(name, "BlockMain_") \/ StartsWith(name, "BlockSub_")

\* The removal of unused BlockMat_ materials (lines 3066-3078, 3116-3124).
RemoveUnusedMaterials(mats, objs, orphans) ==
    Drop(mats, {n \in DOMAIN mats : StartsWith(n, "BlockMat_") /\ ~Used(objs, orphans, n)})

Idle ==
    [pc |-> "idle", coordinates |-> << >>, pending |-> {}, templates_created |-> 0,
     i |-> 0, generated_count |-> 0, failed_count |-> 0]

Last(op, arg, result, loaded) == [op |-> op, arg |-> arg, result |-> result, loaded |-> loaded]

NoCall == Last("none", 0, None, {})

SettingsDefault ==
    [scale_mode |-> "ONE_METER", custom_scale_factor |-> 1000, base_block_size |-> 1000,
     direction_mode |-> "EAST", positioning_mode |-> "MODEL_BASE", adjacent_mode |-> TRUE]

SettingsOther ==
    [scale_mode |-> "ORIGINAL", custom_scale_factor |-> 1000, base_block_size |-> 2000,
     direction_mode |-> "SOUTH", positioning_mode |-> "MODEL_CENTER", adjacent_mode |-> FALSE]

SettingsChoices == {SettingsDefault, SettingsOther}

Placements == {[id |-> id, x |-> x, y |-> 0, z |-> 0] : id \in Ids, x \in 0..MaxX}

CoordinateLists == UNION {[1..n -> Placements] : n \in 1..MaxCoords}

\* Whether every name the model holds stays within the suffix bound.
WithinSuffixBound(names) ==
    \A n \in names : StripNumericSuffix(n) = n \/
        \E k \in 1..MaxSuffix : n = NameWithSuffix(StripNumericSuffix(n), k)

(***************************************************************************)
(* Init                                                                    *)
(***************************************************************************)
Init ==
    /\ templates = EmptyTemplates
    /\ model_configs = EmptyConfigs
    /\ mapping_table = NoTable
    /\ mapping_file_path = None
    /\ materials = EmptyMap
    /\ scene_mapping_path = ""
    /\ settings \in SettingsChoices
    /\ objects = [n \in {} |-> Object("EMPTY", None, << >>, Zero3, "block")]
    /\ bpy_materials = [n \in {} |-> Material(None, None)]
    /\ orphan_refs = {}
    /\ pass = Idle
    /\ last = NoCall
    /\ ops = 0

(***************************************************************************)
(* Operators (the actions of the user interface)                           *)
(***************************************************************************)
\* OBJECT_OT_load_mapping_table.execute
LoadMappingTable(path) ==
    /\ pass.pc = "idle"
    /\ ops < MaxOps
    /\ ops' = ops + 1
    /\ LET m == set_mapping_table(Manager, path)
       IN /\ mapping_table' = m.mapping_table
          /\ mapping_file_path' = m.mapping_file_path
    /\ scene_mapping_path' = path
    /\ last' = NoCall
    /\ UNCHANGED << templates, model_configs, materials, settings, objects, bpy_materials,
                    orphan_refs, pass >>

\* OBJECT_OT_reload_mapping_table.execute with manager.reload_mapping_table
ReloadMappingTable ==
    /\ pass.pc = "idle"
    /\ ops < MaxOps
    /\ ops' = ops + 1
    /\ scene_mapping_path # ""
    /\ Exists(scene_mapping_path)
    /\ LET m == set_mapping_table(Manager, scene_mapping_path)
       IN /\ mapping_table' = m.mapping_table
          /\ mapping_file_path' = m.mapping_file_path
    /\ last' = NoCall
    /\ UNCHANGED << templates, model_configs, materials, scene_mapping_path, settings, objects,
                    bpy_materials, orphan_refs, pass >>

\* OBJECT_OT_clear_all_blocks.execute, on the scene
clear_all_blocks(objs) == RemoveObjects(objs, {n \in DOMAIN objs : IsBlockName(n)})

ClearAllBlocks ==
    /\ pass.pc = "idle"
    /\ ops < MaxOps
    /\ ops' = ops + 1
    /\ objects' = clear_all_blocks(objects)
    /\ orphan_refs' = orphan_refs \cup SlotsOf(objects, {n \in DOMAIN objects : IsBlockName(n)})
    /\ last' = Last("clear_all_blocks", Cardinality({n \in DOMAIN objects : IsBlockName(n)}),
                    "FINISHED", {})
    /\ UNCHANGED << templates, model_configs, mapping_table, mapping_file_path, materials,
                    scene_mapping_path, settings, bpy_materials, pass >>

\* The scene part shared by the two clear-templates operators: the objects
\* named BlockTemplate_, BlockMain_ or BlockSub_ are removed, then the
\* BlockMat_ materials without users.
TemplateObjects(objs) == {n \in DOMAIN objs : IsTemplateName(n)}

ClearTemplateScene ==
    LET gone == TemplateObjects(objects)
        objs == RemoveObjects(objects, gone)
        orphans == orphan_refs \cup SlotsOf(objects, gone)
    IN /\ objects' = objs
       /\ orphan_refs' = orphans
       /\ bpy_materials' = RemoveUnusedMaterials(bpy_materials, objs, orphans)

\* OBJECT_OT_clear_all_templates.execute
ClearAllTemplates ==
    /\ pass.pc = "idle"
    /\ ops < MaxOps
    /\ ops' = ops + 1
    /\ LET m == clear_templates_and_configs(Manager)
       IN /\ templates' = m.templates
          /\ model_configs' = m.model_configs
    /\ ClearTemplateScene
    /\ materials' = EmptyMap
    /\ last' = NoCall
    /\ UNCHANGED << mapping_table, mapping_file_path, scene_mapping_path, settings, pass >>

\* OBJECT_OT_clear_all_templates_and_mapping.execute
ClearAllTemplatesAndMapping ==
    /\ pass.pc = "idle"
    /\ ops < MaxOps
    /\ ops' = ops + 1
    /\ LET m == clear_all(Manager)
       IN /\ templates' = m.templates
          /\ model_configs' = m.model_configs
          /\ materials' = m.materials
          /\ mapping_table' = m.mapping_table
          /\ mapping_file_path' = m.mapping_file_path
    /\ ClearTemplateScene
    /\ scene_mapping_path' = ""
    /\ last' = NoCall
    /\ UNCHANGED << settings, pass >>

\* manager.clear_duplicate_materials: of the BlockMat_ materials with the
\* same name up to a ".NNN" suffix all but the first are dropped from the
\* manager's cache; bpy.data.materials is left as it is.
SuffixNumber(name) ==
    IF StripNumericSuffix(name) = name THEN 0
    ELSE DigitsValue(SubSeq(name, Len(name) - 2, Len(name)), 0)

DuplicateMaterials(mats) ==
    {n \in DOMAIN mats :
        /\ StartsWith(n, "BlockMat_")
        /\ \E m \in DOMAIN mats :
              /\ StartsWith(m, "BlockMat_")
              /\ StripNumericSuffix(m) = StripNumericSuffix(n)
              /\ m # n
              /\ (SuffixNumber(m) < SuffixNumber(n) \/ (StripNumericSuffix(m) = m /\ n # m))}

clear_duplicate_materials(cache, mats) ==
    Drop(cache, {k \in DOMAIN cache : cache[k] \in DuplicateMaterials(mats)})

\* OBJECT_OT_cleanup_duplicate_materials.execute
CleanupDuplicateMaterials ==
    /\ pass.pc = "idle"
    /\ ops < MaxOps
    /\ ops' = ops + 1
    /\ materials' = clear_duplicate_materials(materials, bpy_materials)
    /\ last' = Last("cleanup_duplicate_materials", 0, DuplicateMaterials(bpy_materials), {})
    /\ UNCHANGED << templates, model_configs, mapping_table, mapping_file_path,
                    scene_mapping_path, settings, objects, bpy_materials, orphan_refs, pass >>

(***************************************************************************)
(* OBJECT_OT_generate_from_grid.execute, in its steps: the start (mapping  *)
(* reload, required ids), one template build per required id, the check    *)
(* that a template exists, one placement per coordinate, the report.       *)
(* No other operator runs while a pass is in progress.                     *)
(***************************************************************************)
RequiredIds(coordinates) == {coordinates[k].id : k \in 1..Len(coordinates)}

\* Lines 2896-2948.
GenerateBegin(coordinates) ==
    /\ pass.pc = "idle"
    /\ ops < MaxOps
    /\ ops' = ops + 1
    /\ LET m == IF TableFalsy(mapping_table) /\ scene_mapping_path # ""
                THEN set_mapping_table(Manager, scene_mapping_path)
                ELSE Manager
       IN /\ mapping_table' = m.mapping_table
          /\ mapping_file_path' = m.mapping_file_path
    /\ pass' = [Idle EXCEPT !.pc = "templates", !.coordinates = coordinates,
                            !.pending = RequiredIds(coordinates)]
    /\ last' = NoCall
    /\ UNCHANGED << templates, model_configs, materials, scene_mapping_path, settings, objects,
                    bpy_materials, orphan_refs >>

\* One iteration of the loop over required_ids (lines 2953-2964).
GenerateBuildTemplate(position_id) ==
    /\ pass.pc = "templates"
    /\ ops' = ops
    /\ position_id \in pass.pending
    /\ \E r \in {create_template_for_position_id(Snapshot, position_id, mapping_table, settings)} :
          /\ WithinSuffixBound(DOMAIN r.objs \cup DOMAIN r.mats)
          /\ templates' = r.templates
          /\ model_configs' = r.model_configs
          /\ objects' = r.objs
          /\ bpy_materials' = r.mats
          /\ materials' = r.cache
          /\ pass' = [pass EXCEPT !.pending = pass.pending \ {position_id},
                                  !.templates_created =
                                      IF r.result # None THEN pass.templates_created + 1
                                      ELSE pass.templates_created]
          /\ last' = Last("create_template", position_id, r.result, r.loaded)
    /\ UNCHANGED << mapping_table, mapping_file_path, scene_mapping_path, settings, orphan_refs >>

\* A pass that starts to place while template builds are still pending.
GenerateStartPlacingEarly ==
    /\ pass.pc = "templates"
    /\ ops' = ops
    /\ pass.templates_created # 0
    /\ pass' = [pass EXCEPT !.pc = "placing", !.i = 1]
    /\ last' = NoCall
    /\ UNCHANGED << templates, model_configs, mapping_table, mapping_file_path, materials,
                    scene_mapping_path, settings, objects, bpy_materials, orphan_refs >>

\* The check after the loop (lines 2966-2977): without any template the
\* pass is cancelled before the first placement.
GenerateCancelled ==
    /\ pass.pc = "templates"
    /\ ops' = ops
    /\ pass.pending = {}
    /\ pass.templates_created = 0
    /\ pass' = Idle
    /\ last' = NoCall
    /\ UNCHANGED << templates, model_configs, mapping_table, mapping_file_path, materials,
                    scene_mapping_path, settings, objects, bpy_materials, orphan_refs >>

GenerateStartPlacing ==
    /\ pass.pc = "templates"
    /\ ops' = ops
    /\ pass.pending = {}
    /\ pass.templates_created # 0
    /\ pass' = [pass EXCEPT !.pc = "placing", !.i = 1]
    /\ last' = NoCall
    /\ UNCHANGED << templates, model_configs, mapping_table, mapping_file_path, materials,
                    scene_mapping_path, settings, objects, bpy_materials, orphan_refs >>

\* A placement loop that ends at the first failure.
GeneratePlaceUntilFailure ==
    /\ pass.pc = "placing"
    /\ ops' = ops
    /\ pass.i <= Len(pass.coordinates)
    /\ LET coord == pass.coordinates[pass.i]
           r == create_block_from_template(objects, templates, coord.id, coord.x, coord.y,
                    coord.z, settings.base_block_size, settings.direction_mode,
                    settings.positioning_mode = "MODEL_CENTER", settings.adjacent_mode)
       IN /\ WithinSuffixBound(DOMAIN r.objs)
          /\ objects' = r.objs
          /\ pass' = [pass EXCEPT !.i = IF r.result = None THEN Len(pass.coordinates) + 1
                                        ELSE pass.i + 1,
                         !.generated_count = IF r.result # None THEN pass.generated_count + 1
                                             ELSE pass.generated_count,
                         !.failed_count = IF r.result = None THEN pass.failed_count + 1
                                          ELSE pass.failed_count]
          /\ last' = Last("create_block", coord.id, r.result, {})
    /\ UNCHANGED << templates, model_configs, mapping_table, mapping_file_path, materials,
                    scene_mapping_path, settings, bpy_materials, orphan_refs >>

\* One iteration of the loop over coordinates (lines 2979-3001).
GeneratePlace ==
    /\ pass.pc = "placing"
    /\ ops' = ops
    /\ pass.i <= Len(pass.coordinates)
    /\ LET coord == pass.coordinates[pass.i]
           r == create_block_from_template(objects, templates, coord.id, coord.x, coord.y,
                    coord.z, settings.base_block_size, settings.direction_mode,
                    settings.positioning_mode = "MODEL_CENTER", settings.adjacent_mode)
       IN /\ WithinSuffixBound(DOMAIN r.objs)
          /\ objects' = r.objs
          /\ pass' = [pass EXCEPT !.i = pass.i + 1,
                         !.generated_count = IF r.result # None THEN pass.generated_count + 1
                                             ELSE pass.generated_count,
                         !.failed_count = IF r.result = None THEN pass.failed_count + 1
                                          ELSE pass.failed_count]
          /\ last' = Last("create_block", coord.id, r.result, {})
    /\ UNCHANGED << templates, model_configs, mapping_table, mapping_file_path, materials,
                    scene_mapping_path, settings, bpy_materials, orphan_refs >>

\* The report (lines 3003-3013).
GenerateFinish ==
    /\ pass.pc = "placing"
    /\ ops' = ops
    /\ pass.i > Len(pass.coordinates)
    /\ pass' = Idle
    /\ last' = NoCall
    /\ UNCHANGED << templates, model_configs, mapping_table, mapping_file_path, materials,
                    scene_mapping_path, settings, objects, bpy_materials, orphan_refs >>

(***************************************************************************)
(* OBJECT_OT_test_mapping_system.execute: a template is requested for each *)
(* of the first three ids of the mapping table.                            *)
(***************************************************************************)
\* list(manager._mapping_table.keys()): the ids in the order of the lines of
\* the file, which in the files of this model is the ascending order.
RECURSIVE KeysInOrder(_)
KeysInOrder(ids) ==
    IF ids = {} THEN << >>
    ELSE LET lo == CHOOSE a \in ids : \A b \in ids : a <= b
         IN <<lo>> \o KeysInOrder(ids \ {lo})

\* The loop over test_ids[:3] (lines 3244-3259).
RECURSIVE CreateTemplates(_, _, _, _, _)
CreateTemplates(s, ids, k, table, st) ==
    IF k > Len(ids) \/ k > 3 THEN s
    ELSE CreateTemplates(create_template_for_position_id(s, ids[k], table, st),
                         ids, k + 1, table, st)

\* The operator after the mapping table was looked at: cancelled without a
\* table (lines 3207-3209), else the templates of the first ids are made.
TestWithTable(table) ==
    IF TableFalsy(table)
    THEN UNCHANGED << templates, model_configs, objects, bpy_materials, materials >>
    ELSE \E r \in {CreateTemplates(Snapshot, KeysInOrder(DOMAIN table.entries), 1, table,
                                   settings)} :
            /\ WithinSuffixBound(DOMAIN r.objs \cup DOMAIN r.mats)
            /\ templates' = r.templates
            /\ model_configs' = r.model_configs
            /\ objects' = r.objs
            /\ bpy_materials' = r.mats
            /\ materials' = r.cache

TestMappingSystem ==
    /\ pass.pc = "idle"
    /\ ops < MaxOps
    /\ ops' = ops + 1
    /\ \E m \in {IF TableFalsy(mapping_table) /\ scene_mapping_path # ""
                 THEN set_mapping_table(Manager, scene_mapping_path)
                 ELSE Manager} :
          /\ mapping_table' = m.mapping_table
          /\ mapping_file_path' = m.mapping_file_path
          /\ TestWithTable(m.mapping_table)
    /\ last' = NoCall
    /\ UNCHANGED << scene_mapping_path, settings, orphan_refs, pass >>

(***************************************************************************)
(* Specification                                                           *)
(***************************************************************************)
Next ==
    \/ \E path \in MappingPaths : LoadMappingTable(path)
    \/ ReloadMappingTable
    \/ ClearAllBlocks
    \/ ClearAllTemplates
    \/ ClearAllTemplatesAndMapping
    \/ CleanupDuplicateMaterials
    \/ TestMappingSystem
    \/ \E coordinates \in CoordinateLists : GenerateBegin(coordinates)
    \/ \E position_id \in Ids : GenerateBuildTemplate(position_id)
    \/ GenerateCancelled
    \/ GenerateStartPlacing
    \/ GeneratePlace
    \/ GenerateFinish

Spec == Init /\ [][Next]_vars

(***************************************************************************)
(* Properties                                                              *)
(***************************************************************************)
Blocks == {n \in DOMAIN objects : objects[n].role = "block"}

\* What a call of create_block_from_template gives in the current state.
PlaceNow(position_id, x, y, z) ==
    create_block_from_template(objects, templates, position_id, x, y, z,
        settings.base_block_size, settings.direction_mode,
        settings.positioning_mode = "MODEL_CENTER", settings.adjacent_mode)

\* What a call of create_template_for_position_id gives in the current state.
BuildNow(position_id) ==
    create_template_for_position_id(Snapshot, position_id, mapping_table, settings)

\* C1: once create_template_for_position_id has returned a template for an
\* id (the template is in the cache, no clear operation having run since),
\* a call for that id returns the same template object, loads no model
\* file and leaves the template, configuration and material caches as they
\* are; and every such call made by a generation pass did so.
C1_RepeatBuildReturnsCached ==
    /\ \A position_id \in DOMAIN templates :
          /\ BuildNow(position_id).result = templates[position_id]
          /\ BuildNow(position_id).loaded = {}
          /\ BuildNow(position_id).templates = templates
          /\ BuildNow(position_id).model_configs = model_configs
          /\ BuildNow(position_id).cache = materials
    /\ (last.op = "create_template" /\ last.loaded = {} /\ last.result # None)
          => (last.arg \in DOMAIN templates /\ templates[last.arg] = last.result)

\* A pass has just asked for a template that an earlier operation had built.
C1_Witness ==
    /\ last.op = "create_template"
    /\ last.result # None
    /\ last.loaded = {}
    /\ last.arg \in DOMAIN templates
    /\ ops >= 2

\* C2: the scene holds at most one block instance per (position_id, x, y,
\* z); a call of create_block_from_template with the four values of an
\* instance returns that instance and creates nothing; instances of
\* different values are different objects.
C2_OneInstancePerCoordinate ==
    /\ \A a, b \in Blocks :
          (objects[a].position_id = objects[b].position_id /\ objects[a].grid = objects[b].grid)
              <=> a = b
    /\ \A a \in Blocks :
          /\ PlaceNow(objects[a].position_id, objects[a].grid[1], objects[a].grid[2],
                      objects[a].grid[3]).result = a
          /\ PlaceNow(objects[a].position_id, objects[a].grid[1], objects[a].grid[2],
                      objects[a].grid[3]).objs = objects

\* A pass has asked again for an instance that exists, and the scene holds a
\* second instance of the same id at another coordinate.
C2_Witness ==
    /\ last.op = "create_block"
    /\ last.result # None
    /\ pass.pc = "placing"
    /\ pass.i = 3
    /\ pass.coordinates[1] = pass.coordinates[2]
    /\ \E a, b \in Blocks :
          /\ a # b
          /\ objects[a].position_id = objects[b].position_id
          /\ objects[a].grid # objects[b].grid

\* The material key of a material object: its name without the ".NNN" the
\* host appends to keep names unique.
MaterialKey(name) == StripNumericSuffix(name)

\* C3: there is at most one material object per material key, whatever
\* template builds, placements and clear operations have run.
C3_OneMaterialPerKey ==
    \A m, n \in DOMAIN bpy_materials : MaterialKey(m) = MaterialKey(n) => m = n

\* The template containers the manager holds, with their children.
TemplateParts ==
    {n \in DOMAIN objects :
        \E position_id \in DOMAIN templates :
            n = templates[position_id] \/ objects[n].parent = templates[position_id]}

\* C4: a pass places only after the build of every required id has been
\* attempted, and from the first placement to the end of the pass no
\* template is built or changed: the template and configuration caches and
\* every template object stay as they are.
C4_TemplatesBeforePlacements ==
    [][/\ pass'.pc = "placing" => pass'.pending = {}
       /\ pass.pc = "placing" =>
             /\ templates' = templates
             /\ model_configs' = model_configs
             /\ \A n \in TemplateParts : n \in DOMAIN objects' /\ objects'[n] = objects[n]]_vars

\* A placement has failed in a pass that holds the template of another id.
C4_Witness ==
    /\ pass.pc = "placing"
    /\ last.op = "create_block"
    /\ last.result = None
    /\ \E position_id \in DOMAIN templates : position_id # last.arg

\* C5: a call of create_template_for_position_id that can build neither
\* model returns no template and leaves the template cache and the
\* configuration cache as they were.
C5_FailedBuildCachesNothing ==
    [][(pass.pc = "templates" /\ pass'.pending # pass.pending /\ last'.result = None)
          => (templates' = templates /\ model_configs' = model_configs)]_vars

\* C6: every template in the manager's template cache is an object of the
\* scene with at least one child, a main model or a submodel.
C6_CachedTemplateHasGeometry ==
    \A position_id \in DOMAIN templates :
        /\ templates[position_id] \in DOMAIN objects
        /\ \E n \in ChildrenOf(objects, templates[position_id]) :
              objects[n].role \in {"main", "sub"}

\* A build has failed for one id while the cache holds the template of
\* another, made of a submodel alone.
C6_Witness ==
    /\ last.op = "create_template"
    /\ last.result = None
    /\ last.arg \notin DOMAIN templates
    /\ \E position_id \in DOMAIN templates :
          \A n \in ChildrenOf(objects, templates[position_id]) : objects[n].role = "sub"

\* A step of the placement loop, and the coordinate it attempts.
PlacementStep == pass.pc = "placing" /\ pass'.pc = "placing" /\ pass'.i # pass.i

Attempted == pass.coordinates[pass.i]

\* The placement of the coordinate with the templates of all other ids
\* taken away.
PlaceAlone(coord) ==
    create_block_from_template(objects,
        [k \in DOMAIN templates \cap {coord.id} |-> templates[k]],
        coord.id, coord.x, coord.y, coord.z, settings.base_block_size,
        settings.direction_mode, settings.positioning_mode = "MODEL_CENTER",
        settings.adjacent_mode)

\* The placements of an id whose template was built or found: the instance
\* is the one a pass with this id alone produces.
PlacedAsAlone ==
    (PlacementStep /\ Attempted.id \in DOMAIN templates) =>
        /\ objects' = PlaceAlone(Attempted).objs
        /\ last'.result = PlaceAlone(Attempted).result
        /\ last'.result # None
        /\ pass'.generated_count = pass.generated_count + 1
        /\ pass'.failed_count = pass.failed_count

\* C7 as stated: in a pass where the build fails for id A and succeeds for
\* id B, every placement of A is counted as failed and creates no instance,
\* and every placement of B produces its instance as in a pass without A.
C7_FailedIdAlwaysCountedFailed ==
    [][/\ (PlacementStep /\ Attempted.id \notin DOMAIN templates) =>
             /\ pass'.failed_count = pass.failed_count + 1
             /\ pass'.generated_count = pass.generated_count
             /\ objects' = objects
       /\ PlacedAsAlone]_vars

\* C7: in a pass where the build fails for id A and succeeds for id B, a
\* placement of A creates no instance; it is counted as failed unless the
\* block of that coordinate is in the scene already, and then the block is
\* returned and the placement counted as generated; every placement of B
\* produces its instance as in a pass without A.
C7_FailedIdCreatesNoInstance ==
    [][/\ (PlacementStep /\ Attempted.id \notin DOMAIN templates) =>
             /\ objects' = objects
             /\ IF BlockExists(objects, Attempted.id, Attempted.x, Attempted.y, Attempted.z)
                THEN /\ pass'.generated_count = pass.generated_count + 1
                     /\ pass'.failed_count = pass.failed_count
                     /\ last'.result = BlockName(Attempted.id, Attempted.x, Attempted.y,
                                                 Attempted.z)
                ELSE /\ pass'.failed_count = pass.failed_count + 1
                     /\ pass'.generated_count = pass.generated_count
                     /\ last'.result = None
       /\ PlacedAsAlone]_vars

\* A pass has failed to place an id without a template and has then placed
\* a new instance of an id with one.
C7_Witness ==
    /\ pass.pc = "placing"
    /\ pass.i = 3
    /\ pass.coordinates[1].id \notin DOMAIN templates
    /\ pass.coordinates[2].id \in DOMAIN templates
    /\ pass.failed_count = 1
    /\ pass.generated_count = 1
    /\ last.op = "create_block"
    /\ last.result # None

\* The counts of the placement loop: each step attempts the next coordinate
\* and counts it once, as generated or as failed, and the loop ends only
\* after the last coordinate.
AttemptedOnceInOrder ==
    /\ PlacementStep =>
          /\ pass'.i = pass.i + 1
          /\ pass.i \in 1..Len(pass.coordinates)
          /\ last'.op = "create_block"
          /\ last'.arg = Attempted.id
          /\ pass'.generated_count + pass'.failed_count
                = pass.generated_count + pass.failed_count + 1
          /\ (last'.result = None) <=> (pass'.failed_count = pass.failed_count + 1)
          /\ pass.generated_count + pass.failed_count = pass.i - 1
    /\ (pass.pc = "placing" /\ pass'.pc = "idle") =>
          /\ pass.i = Len(pass.coordinates) + 1
          /\ pass.generated_count + pass.failed_count = Len(pass.coordinates)

CacheItems(m) ==
    {<<"template", ToString(k)>> : k \in DOMAIN m.templates}
        \cup {<<"config", ToString(k)>> : k \in DOMAIN m.model_configs}
        \cup {<<"material", k>> : k \in DOMAIN m.materials}
        \cup {<<"mapping", ToString(k)>> : k \in DOMAIN m.mapping_table.entries}
        \cup (IF m.mapping_table.none THEN {} ELSE {<<"mapping", "table">>})
        \cup (IF m.mapping_file_path = None THEN {} ELSE {<<"mapping", "path">>})

SceneItems(objs) == {<<"object", n>> : n \in DOMAIN objs}

Items(m, objs) == CacheItems(m) \cup SceneItems(objs)

\* The four invalidations applied to the current state: the clearing of the
\* placed instances, the manager's clear_templates_and_configs, the
\* clear-templates operator (the manager as after clear_all_except_mapping)
\* and the clear-templates-and-mapping operator.
Tier1 == [m |-> Manager, objs |-> clear_all_blocks(objects)]

Tier2 == [m |-> clear_templates_and_configs(Manager), objs |-> objects]

Tier3 ==
    [m |-> clear_all_except_mapping(Manager),
     objs |-> RemoveObjects(objects, TemplateObjects(objects))]

Tier4 ==
    [m |-> clear_all(Manager), objs |-> RemoveObjects(objects, TemplateObjects(objects))]

Removed(tier) == Items(Manager, objects) \ Items(tier.m, tier.objs)

Tiers == <<Tier1, Tier2, Tier3, Tier4>>

\* The manager holds an entry in each of its caches and the scene a block
\* and a template.
Populated ==
    /\ DOMAIN templates # {}
    /\ DOMAIN model_configs # {}
    /\ DOMAIN materials # {}
    /\ ~TableFalsy(mapping_table)
    /\ \E n \in DOMAIN objects : IsBlockName(n)

\* C9 as stated: everything tier n removes is removed by tier n+1, and
\* (with something of every kind to remove) tier n+1 removes something tier
\* n keeps.
C9_EachTierContainsThePrevious ==
    \A n \in 1..3 :
        /\ Removed(Tiers[n]) \subseteq Removed(Tiers[n + 1])
        /\ Populated => Removed(Tiers[n + 1]) \ Removed(Tiers[n]) # {}

\* C9: the invalidations of the templates are nested: what tier 2 removes
\* tier 3 removes, and tier 3 removes the material cache entries and the
\* template objects besides; what tier 3 removes tier 4 removes, and tier 4
\* removes the mapping besides.  Tier 1 removes the block containers, which
\* none of the other tiers removes.
C9_TemplateTiersNested ==
    /\ Removed(Tier2) =
          {<<"template", ToString(k)>> : k \in DOMAIN templates}
              \cup {<<"config", ToString(k)>> : k \in DOMAIN model_configs}
    /\ Removed(Tier3) =
          Removed(Tier2) \cup {<<"material", k>> : k \in DOMAIN materials}
              \cup {<<"object", n>> : n \in TemplateObjects(objects)}
    /\ Removed(Tier4) =
          Removed(Tier3) \cup {<<"mapping", ToString(k)>> : k \in DOMAIN mapping_table.entries}
              \cup (IF mapping_table.none THEN {} ELSE {<<"mapping", "table">>})
              \cup (IF mapping_file_path = None THEN {} ELSE {<<"mapping", "path">>})
    /\ Removed(Tier1) = {<<"object", n>> : n \in {o \in DOMAIN objects : IsBlockName(o)}}
    /\ Removed(Tier1) \cap Removed(Tier4) = {}

\* Every tier has something to remove, and each of tiers 3 and 4 something
\* the tier before it keeps.
C9_Witness ==
    /\ Populated
    /\ Removed(Tier1) # {}
    /\ Removed(Tier2) # {}
    /\ Removed(Tier3) \ Removed(Tier2) # {}
    /\ Removed(Tier4) \ Removed(Tier3) # {}

\* The frame of the manager's invalidation methods in the current state.
MethodFrames ==
    /\ DOMAIN clear_templates_and_configs(Manager).templates = {}
    /\ DOMAIN clear_templates_and_configs(Manager).model_configs = {}
    /\ clear_templates_and_configs(Manager).mapping_table = mapping_table
    /\ clear_templates_and_configs(Manager).mapping_file_path = mapping_file_path
    /\ clear_templates_and_configs(Manager).materials = materials
    /\ clear_all_except_mapping(Manager).mapping_table = mapping_table
    /\ clear_all_except_mapping(Manager).mapping_file_path = mapping_file_path

\* A step of the operator that clears the placed instances.
ClearBlocksStep == ops' = ops + 1 /\ last'.op = "clear_all_blocks"

\* C10: clear_templates_and_configs empties the template and configuration
\* caches and leaves the mapping table, the mapping file path and the
\* material cache as they are; clear_all_except_mapping leaves the mapping
\* table and the mapping file path as they are; the clearing of the placed
\* instances leaves the four caches of the manager as they are.
C10_InvalidationFrames ==
    [][/\ MethodFrames
       /\ MethodFrames'
       /\ ClearBlocksStep =>
             /\ templates' = templates
             /\ model_configs' = model_configs
             /\ materials' = materials
             /\ mapping_table' = mapping_table
             /\ mapping_file_path' = mapping_file_path
             /\ \A n \in DOMAIN objects' : ~IsBlockName(n)]_vars

\* The placed instances have been cleared while the manager held templates,
\* configurations, materials and a mapping table.
C10_Witness ==
    /\ last.op = "clear_all_blocks"
    /\ last.arg > 0
    /\ DOMAIN templates # {}
    /\ DOMAIN model_configs # {}
    /\ DOMAIN materials # {}
    /\ ~mapping_table.none
    /\ mapping_file_path # None

\* The placed instances with the duplicated main and sub geometry parented
\* to them.
InstanceParts == Blocks \cup {n \in DOMAIN objects : objects[n].parent \in Blocks}

\* C11: a placed instance and the duplicated main/sub geometry it
\* references are removed from the scene only by the operator that clears
\* the placed instances; every other step, the two clear-templates
\* operators included, leaves them in the scene.
C11_InstancesSurviveOtherOperations ==
    [][~ClearBlocksStep => InstanceParts \subseteq DOMAIN objects']_vars

(***************************************************************************)
(* ModelConfig as a function of its arguments: the arguments are drawn     *)
(* from the blocktypes the code names and from a few texture prefixes and  *)
(* submodel names, and the constructor is applied to them.                 *)
(***************************************************************************)
Blocktypes == {"", "grass", "teamspawn", "soil", "plantash"} \cup MinestoneTypes

Prefixes == {"", "spawn", "grass"}

SubmodelNames == {"", "flag", "mushroom"}

\* What manager.get_mapping_for_id(position_id) can return.
MappingDataFor(position_id) ==
    {AbsentRecord} \cup
    {[present |-> TRUE, position_id |-> position_id, blocktype |-> b,
      main_texture_prefix |-> p, submodel_name |-> s, z_texture_prefix |-> s] :
        b \in Blocktypes, p \in Prefixes, s \in SubmodelNames}

\* The state after construction, with the arguments of a call to come.
Fresh(arguments) ==
    /\ templates = EmptyTemplates
    /\ model_configs = EmptyConfigs
    /\ mapping_table = NoTable
    /\ mapping_file_path = None
    /\ materials = EmptyMap
    /\ scene_mapping_path = ""
    /\ settings = SettingsDefault
    /\ objects = [n \in {} |-> Object("EMPTY", None, << >>, Zero3, "block")]
    /\ bpy_materials = [n \in {} |-> Material(None, None)]
    /\ orphan_refs = {}
    /\ pass = Idle
    /\ last = Last("arguments", arguments, None, {})
    /\ ops = 0

\* A call that changes nothing but what it returns.
Returns(op, result) ==
    /\ last' = Last(op, last.arg, result, {})
    /\ UNCHANGED << templates, model_configs, mapping_table, mapping_file_path, materials,
                    scene_mapping_path, settings, objects, bpy_materials, orphan_refs,
                    pass, ops >>

InitModelConfig ==
    \E position_id \in Ids : \E mapping_data \in MappingDataFor(position_id) :
        Fresh([position_id |-> position_id, mapping_data |-> mapping_data])

ConstructModelConfig ==
    /\ last.op = "arguments"
    /\ Returns("ModelConfig", ModelConfig(last.arg.position_id, last.arg.mapping_data))

NextModelConfig == ConstructModelConfig

SpecModelConfig == InitModelConfig /\ [][NextModelConfig]_vars

Constructed == last.op = "ModelConfig"

\* C12: for every mapping record whose blocktype is teamspawn, whatever
\* its submodel name and main texture prefix, the ModelConfig has
\* need_main_model true, an empty submodel name, no submodel path and
\* has_submodel() false, and no submodel file is probed.
C12_TeamspawnNeverUsesSubmodel ==
    (Constructed /\ last.arg.mapping_data.blocktype = "teamspawn") =>
        /\ last.result.need_main_model
        /\ last.result.submodel_name = ""
        /\ last.result.submodel_path = None
        /\ ~has_submodel(last.result)
        /\ SubmodelCandidates(last.result.position_id, last.result.blocktype,
                              last.arg.mapping_data.submodel_name) = << >>

\* A teamspawn record without a main texture prefix that names a submodel
\* whose file exists in the folder of the id.
C12_Witness ==
    /\ Constructed
    /\ last.arg.mapping_data.blocktype = "teamspawn"
    /\ last.arg.mapping_data.main_texture_prefix = ""
    /\ last.arg.mapping_data.submodel_name = "mushroom"
    /\ Exists(Join(Join(ModelsBase, ToString(last.arg.position_id)), "mushroom_lod1.obj"))
    /\ last.result.need_main_model

MaxLines == 3

LineKinds ==
    { "",
      "   ",
      "=id,name,blocktype",
      "9,too,short",
      "abc" \o Commas(45),
      MappingLine(7, "minestone", "hupo", "hupo1"),
      MappingLine(7, "soil", "dirt", "top"),
      MappingLine(7, "minestone", "hupo,hupo1", "amber"),
      MappingLine(1, "grass", "grass", ""),
      "  " \o MappingLine(2, "teamspawn", "spawn", "flag") \o " " }

MappingFiles ==
    {[exists |-> FALSE, lines |-> << >>]} \cup
    {[exists |-> TRUE, lines |-> l] : l \in UNION {[1..n -> LineKinds] : n \in 1..MaxLines}}

InitMapping == \E file \in MappingFiles : Fresh(file)

ParseMappingTable ==
    /\ last.op = "arguments"
    /\ Returns("parse_mapping_table", ParseFile(last.arg.exists, last.arg.lines))

NextMapping == ParseMappingTable

SpecMapping == InitMapping /\ [][NextMapping]_vars

Parsed == last.op = "parse_mapping_table"

\* The fields of a line and the lines that contribute a record.
Fields(line) == Split(Strip(line), ",")

Contributes(line) ==
    /\ Strip(line) # ""
    /\ SubSeq(Strip(line), 1, 1) # "="
    /\ Len(Fields(line)) >= 46
    /\ IsIntLiteral(Fields(line)[1])

\* The last contributing line that carries the id.
LastLineOf(lines, position_id) ==
    CHOOSE i \in 1..Len(lines) :
        /\ Contributes(lines[i]) /\ IntValue(Fields(lines[i])[1]) = position_id
        /\ \A j \in (i + 1)..Len(lines) :
               ~(Contributes(lines[j]) /\ IntValue(Fields(lines[j])[1]) = position_id)

\* C14: parse_mapping_table does not stop at a bad line: blank lines, lines
\* that start with "=", lines with fewer than 46 fields and lines whose
\* field 0 is not an integer contribute nothing, and the result maps each
\* position id of a contributing line to the record of the last such line
\* with that id; a path that does not exist gives the empty mapping.
C14_BadLinesSkippedLastWins ==
    Parsed =>
        IF ~last.arg.exists THEN last.result = EmptyMapping
        ELSE /\ DOMAIN last.result =
                   {IntValue(Fields(last.arg.lines[i])[1]) :
                        i \in {j \in 1..Len(last.arg.lines) : Contributes(last.arg.lines[j])}}
             /\ \A k \in DOMAIN last.result :
                   last.result[k] =
                       MappingRecordOf(Fields(last.arg.lines[LastLineOf(last.arg.lines, k)]))

\* Two lines for id 7 with a rejected line between them: the record is the
\* one of the second.
C14_Witness ==
    /\ Parsed
    /\ last.arg.exists
    /\ last.arg.lines = << MappingLine(7, "minestone", "hupo", "hupo1"),
                           "9,too,short",
                           MappingLine(7, "soil", "dirt", "top") >>
    /\ DOMAIN last.result = {7}
    /\ last.result[7].blocktype = "soil"

Whitespace == {" ", "\t"}

\* str.strip()
RECURSIVE LStripWs(_)
LStripWs(s) ==
    IF Len(s) > 0 /\ SubSeq(s, 1, 1) \in Whitespace THEN LStripWs(SubSeq(s, 2, Len(s))) ELSE s

RECURSIVE RStripWs(_)
RStripWs(s) ==
    IF Len(s) > 0 /\ SubSeq(s, Len(s), Len(s)) \in Whitespace
    THEN RStripWs(SubSeq(s, 1, Len(s) - 1)) ELSE s

StripWs(s) == LStripWs(RStripWs(s))

\* ' ' in line
HasBlank(s) == \E i \in 1..Len(s) : SubSeq(s, i, i) = " "

\* re.split(r'\s+', s) for a string without whitespace at its ends
RECURSIVE SplitWsFrom(_, _, _)
SplitWsFrom(s, i, cur) ==
    IF i > Len(s) THEN <<cur>>
    ELSE IF SubSeq(s, i, i) \in Whitespace
         THEN (IF SubSeq(s, i - 1, i - 1) \in Whitespace
               THEN SplitWsFrom(s, i + 1, cur)
               ELSE <<cur>> \o SplitWsFrom(s, i + 1, ""))
         ELSE SplitWsFrom(s, i + 1, cur \o SubSeq(s, i, i))

SplitWs(s) == SplitWsFrom(s, 1, "")

RECURSIVE Pow10(_)
Pow10(n) == IF n = 0 THEN 1 ELSE 10 * Pow10(n - 1)

Unsigned(t) == IF Len(t) > 0 /\ SubSeq(t, 1, 1) \in {"+", "-"} THEN SubSeq(t, 2, Len(t)) ELSE t

Negative(t) == Len(t) > 0 /\ SubSeq(t, 1, 1) = "-"

\* The position of the first "." of a string, or 0.
DotAt(u) ==
    IF \E i \in 1..Len(u) : SubSeq(u, i, i) = "."
    THEN CHOOSE i \in 1..Len(u) :
             SubSeq(u, i, i) = "." /\ \A j \in 1..(i - 1) : SubSeq(u, j, j) # "."
    ELSE 0

\* A decimal literal without sign: digits, with an optional "." among them.
IsDecimal(u) ==
    IF DotAt(u) = 0 THEN AllDigits(u)
    ELSE LET ip == SubSeq(u, 1, DotAt(u) - 1)
             fp == SubSeq(u, DotAt(u) + 1, Len(u))
         IN /\ Len(ip) + Len(fp) > 0
            /\ Len(ip) = 0 \/ AllDigits(ip)
            /\ Len(fp) = 0 \/ AllDigits(fp)

\* The value of a decimal literal without sign, as numerator and denominator.
DecimalValue(u) ==
    IF DotAt(u) = 0 THEN <<DigitsValue(u, 0), 1>>
    ELSE LET ip == SubSeq(u, 1, DotAt(u) - 1)
             fp == SubSeq(u, DotAt(u) + 1, Len(u))
         IN <<DigitsValue(ip, 0) * Pow10(Len(fp)) + DigitsValue(fp, 0), Pow10(Len(fp))>>

\* float(s): a finite value num/den, an infinity, a NaN, or a ValueError.
Float(kind, num, den) == [kind |-> kind, num |-> num, den |-> den]

float(s) ==
    LET t == StripWs(s)
        u == Unsigned(t)
    IN IF u \in {"inf", "infinity"} THEN Float("inf", 0, 1)
       ELSE IF u = "nan" THEN Float("nan", 0, 1)
       ELSE IF IsDecimal(u)
            THEN Float("finite",
                       IF Negative(t) THEN 0 - DecimalValue(u)[1] ELSE DecimalValue(u)[1],
                       DecimalValue(u)[2])
       ELSE Float("ValueError", 0, 1)

\* round(x) of a finite x = num/den: to the nearest integer, a tie to the
\* even one.
round(num, den) ==
    LET q == num \div den
        r == num - q * den
    IN IF 2 * r < den THEN q
       ELSE IF 2 * r > den THEN q + 1
       ELSE IF q % 2 = 0 THEN q ELSE q + 1

\* What one line does to the parse: it appends a placement, it is skipped,
\* or an exception that the function does not catch leaves it.
Outcome(kind, id, x, y, z) == [kind |-> kind, id |-> id, x |-> x, y |-> y, z |-> z]

Skipped == Outcome("skip", 0, 0, 0, 0)

\* The dict of lines 592-597: int(round(x)), int(round(y)), int(round(z)) in
\* this order; round raises ValueError for a NaN and OverflowError for an
\* infinity, and only the first is caught at line 640.
Rounded(id, x, y, z) ==
    LET bad == {i \in 1..3 : <<x, y, z>>[i].kind # "finite"}
    IN IF bad = {}
       THEN Outcome("placement", id, round(x.num, x.den), round(y.num, y.den),
                    round(z.num, z.den))
       ELSE LET first == CHOOSE i \in bad : \A j \in bad : i <= j
            IN IF <<x, y, z>>[first].kind = "nan" THEN Skipped
               ELSE Outcome("OverflowError", 0, 0, 0, 0)

\* The body of the branches of lines 586-610 and 615-638 for the parts of
\* a line.
FromParts(parts) ==
    IF Len(parts) \notin {3, 4} THEN Skipped
    ELSE IF \E i \in 1..3 : float(parts[i]).kind = "ValueError" THEN Skipped
    ELSE IF Len(parts) = 4 /\ ~IsIntLiteral(parts[4]) THEN Skipped
    ELSE Rounded(IF Len(parts) = 4 THEN IntValue(parts[4]) ELSE 0,
                 float(parts[1]), float(parts[2]), float(parts[3]))

\* One turn of the loop of lines 575-642.
ParseCoordinateLine(line0) ==
    LET line == StripWs(line0)
    IN IF line = "" \/ StartsWith(line, "#") THEN Skipped
       ELSE IF HasComma(line)
            THEN FromParts([i \in 1..Len(Split(line, ",")) |-> StripWs(Split(line, ",")[i])])
       ELSE IF HasBlank(line) THEN FromParts(SplitWs(line))
       ELSE Skipped

\* parse_coordinate_string for the lines of coord_str: the coordinates it
\* returns, or the exception that leaves it.
RECURSIVE ParseCoordinates(_, _, _)
ParseCoordinates(lines, i, coordinates) ==
    IF i > Len(lines) THEN [raised |-> None, coordinates |-> coordinates]
    ELSE LET o == ParseCoordinateLine(lines[i])
         IN IF o.kind = "OverflowError"
            THEN [raised |-> "OverflowError", coordinates |-> << >>]
            ELSE ParseCoordinates(lines, i + 1,
                     IF o.kind = "placement"
                     THEN Append(coordinates, [id |-> o.id, x |-> o.x, y |-> o.y, z |-> o.z])
                     ELSE coordinates)

parse_coordinate_string(lines) == ParseCoordinates(lines, 1, << >>)

\* parse_coordinate_string as a function of the text: the lines are drawn
\* from a few kinds of line, and the parser is applied to them.
MaxCoordLines == 2

CoordinateLineKinds ==
    { "-4,0,9,1", "2 3 1", "", "# note", "1,2", "a,b,c", "0.5,1.5,2.5", "1\t2\t3",
      "inf,0,0,1", "nan,0,0", "1,2,3,1.0", "1.4 2.6 -3 2", " 1 , 2 , 3 " }

CoordinateTexts == UNION {[1..n -> CoordinateLineKinds] : n \in 1..MaxCoordLines}

InitCoordinates == \E lines \in CoordinateTexts : Fresh(lines)

ParseCoordinateString ==
    /\ last.op = "arguments"
    /\ Returns("parse_coordinate_string", parse_coordinate_string(last.arg))

NextCoordinates == ParseCoordinateString

SpecCoordinates == InitCoordinates /\ [][NextCoordinates]_vars

ParsedCoordinates == last.op = "parse_coordinate_string"

\* The fields of a line, separated by commas or by whitespace.
CoordinateFields(line) ==
    IF HasComma(line)
    THEN [i \in 1..Len(Split(StripWs(line), ",")) |-> StripWs(Split(StripWs(line), ",")[i])]
    ELSE SplitWs(StripWs(line))

\* A line that holds three or four numeric fields, the fourth an integer.
HoldsPlacement(line) ==
    /\ StripWs(line) # ""
    /\ SubSeq(StripWs(line), 1, 1) # "#"
    /\ Len(CoordinateFields(line)) \in {3, 4}
    /\ \A i \in 1..3 : IsDecimal(Unsigned(CoordinateFields(line)[i]))
    /\ Len(CoordinateFields(line)) = 4 => IsIntLiteral(CoordinateFields(line)[4])

\* v is an integer nearest to the decimal literal.
Nearest(v, literal) ==
    LET d == DecimalValue(Unsigned(literal))
        num == IF Negative(literal) THEN 0 - d[1] ELSE d[1]
        diff == num - v * d[2]
    IN 2 * (IF diff < 0 THEN 0 - diff ELSE diff) <= d[2]

PlacementOfLine(c, line) ==
    LET f == CoordinateFields(line)
    IN /\ c.id = (IF Len(f) = 4 THEN IntValue(f[4]) ELSE 0)
       /\ Nearest(c.x, f[1])
       /\ Nearest(c.y, f[2])
       /\ Nearest(c.z, f[3])

\* C16: parse_coordinate_string returns, in input order and with
\* duplicates kept, one placement for every line that holds three or four
\* numeric fields separated by commas or by whitespace (id = the fourth
\* field, or 0 when there are three; x, y, z rounded to the nearest
\* integer); blank lines, "#" lines and malformed lines give no placement
\* and do not stop the parse; "-4,0,9,1" then "2 3 1" gives
\* {id 1, x -4, y 0, z 9} and {id 0, x 2, y 3, z 1}.
C16_OnePlacementPerNumericLine ==
    ParsedCoordinates =>
        LET expected == SelectSeq(last.arg, HoldsPlacement)
        IN /\ last.result.raised = None
           /\ Len(last.result.coordinates) = Len(expected)
           /\ \A i \in 1..Len(expected) \cap 1..Len(last.result.coordinates) :
                 PlacementOfLine(last.result.coordinates[i], expected[i])
           /\ last.arg = << "-4,0,9,1", "2 3 1" >> =>
                 last.result.coordinates = << [id |-> 1, x |-> -4, y |-> 0, z |-> 9],
                                              [id |-> 0, x |-> 2, y |-> 3, z |-> 1] >>

(***************************************************************************)
(* Face detection.  A mesh is the sequence of its polygons' normals, a     *)
(* normal a vector of three integers; poly.index is the position in the    *)
(* sequence less one.                                                      *)
(***************************************************************************)
MaxN == 4

Normals == {<<x, y, z>> : x \in -MaxN..MaxN, y \in -MaxN..MaxN, z \in -MaxN..MaxN}

LengthSq(n) == n[1] * n[1] + n[2] * n[2] + n[3] * n[3]

\* normal_normalized[axis] > 0.7 for sign 1 and < -0.7 for sign -1; a normal
\* of length 0 is compared as it is.
Beyond(n, axis, sign) == sign * n[axis] > 0 /\ 100 * n[axis] * n[axis] > 49 * LengthSq(n)

\* abs(normal_normalized[axis]) < 0.3
Below(n, axis) == IF LengthSq(n) = 0 THEN TRUE ELSE 100 * n[axis] * n[axis] < 9 * LengthSq(n)

BucketNames == {"x", "neg_x", "y", "neg_y", "z", "neg_z"}

\* A test of the dominant axis alone.
BucketByDominantAxis(n) ==
    IF Beyond(n, 1, 1) THEN "x"
    ELSE IF Beyond(n, 1, -1) THEN "neg_x"
    ELSE IF Beyond(n, 2, 1) THEN "y"
    ELSE IF Beyond(n, 2, -1) THEN "neg_y"
    ELSE IF Beyond(n, 3, 1) THEN "z"
    ELSE IF Beyond(n, 3, -1) THEN "neg_z"
    ELSE "none"

\* The if/elif chain of lines 897-913: the list the polygon is appended to.
BucketOf(n) ==
    IF Beyond(n, 1, 1) /\ Below(n, 2) /\ Below(n, 3) THEN "x"
    ELSE IF Beyond(n, 1, -1) /\ Below(n, 2) /\ Below(n, 3) THEN "neg_x"
    ELSE IF Beyond(n, 2, 1) /\ Below(n, 1) /\ Below(n, 3) THEN "y"
    ELSE IF Beyond(n, 2, -1) /\ Below(n, 1) /\ Below(n, 3) THEN "neg_y"
    ELSE IF Beyond(n, 3, 1) /\ Below(n, 1) /\ Below(n, 2) THEN "z"
    ELSE IF Beyond(n, 3, -1) /\ Below(n, 1) /\ Below(n, 2) THEN "neg_z"
    ELSE "none"

\* The indices appended to one list, in the order of the polygons.
RECURSIVE FacesOf(_, _, _)
FacesOf(polygons, bucket, i) ==
    IF i > Len(polygons) THEN << >>
    ELSE (IF BucketOf(polygons[i]) = bucket THEN <<i - 1>> ELSE << >>)
             \o FacesOf(polygons, bucket, i + 1)

\* find_all_directional_faces(obj): the six lists, by name.
find_all_directional_faces(obj) ==
    IF obj.type # "MESH" THEN [b \in BucketNames |-> << >>]
    ELSE [b \in BucketNames |-> FacesOf(obj.polygons, b, 1)]

\* poly.index in faces
InFaces(index, faces) == \E k \in 1..Len(faces) : faces[k] = index

(***************************************************************************)
(* The material index the material systems give each polygon of the main   *)
(* model.  A material_indices dict is a function from its keys to slot     *)
(* indices.                                                                *)
(***************************************************************************)
\* No assignment: the polygon keeps the material_index it was imported with.
Kept == -1

\* material_indices[key] for a key the dict does not hold.
KeyError == -2

Assigned(index) == [raised |-> None, index |-> index]

\* The loop over obj.data.polygons for a body that gives each polygon an
\* index, leaves it, or raises: the polygons from the first raise on are
\* left as they were.
Loop(outcomes) ==
    IF \E i \in 1..Len(outcomes) : outcomes[i] = KeyError
    THEN [raised |-> "KeyError",
          index |-> [i \in 1..Len(outcomes) |->
                       IF \E j \in 1..i : outcomes[j] = KeyError THEN Kept ELSE outcomes[i]]]
    ELSE Assigned(outcomes)

DirectionKey(faces, index) ==
    IF InFaces(index, faces["x"]) \/ InFaces(index, faces["neg_x"]) THEN "x"
    ELSE IF InFaces(index, faces["y"]) \/ InFaces(index, faces["neg_y"]) THEN "y"
    ELSE IF InFaces(index, faces["z"]) \/ InFaces(index, faces["neg_z"]) THEN "z"
    ELSE "default"

\* apply_default_material_system, lines 1940-1950 and 1980-1992.
DefaultSystemIndices(obj, x, y, z) ==
    IF x = None /\ y = None /\ z = None
    THEN Assigned([i \in 1..Len(obj.polygons) |-> 0])
    ELSE Assigned([i \in 1..Len(obj.polygons) |->
             LET key == DirectionKey(find_all_directional_faces(obj), i - 1)
             IN IF key = "x" THEN 0 ELSE IF key = "y" THEN 1 ELSE IF key = "z" THEN 2 ELSE 3])

\* material_indices of apply_minestone_material_system (lines 1861-1873).
MinestoneMaterialIndices(x, y, z) ==
    LET nx == IF x # None THEN 1 ELSE 0
        ny == IF y # None THEN 1 ELSE 0
        keys == (IF x # None THEN {"x"} ELSE {}) \cup (IF y # None THEN {"y"} ELSE {})
                    \cup (IF z # None THEN {"z"} ELSE {})
    IN [k \in (IF keys = {} THEN {"default"} ELSE keys) |->
           IF k = "x" THEN 0 ELSE IF k = "y" THEN nx ELSE IF k = "z" THEN nx + ny ELSE 0]

\* apply_minestone_material_system, lines 1833-1843 and 1889-1914.
MinestoneSystemIndices(obj, x, y, z) ==
    IF x = None /\ y = None /\ z = None
    THEN Assigned([i \in 1..Len(obj.polygons) |-> 0])
    ELSE Assigned([i \in 1..Len(obj.polygons) |->
             LET key == DirectionKey(find_all_directional_faces(obj), i - 1)
                 material_indices == MinestoneMaterialIndices(x, y, z)
             IN IF key \in DOMAIN material_indices THEN material_indices[key]
                ELSE IF "default" \in DOMAIN material_indices THEN material_indices["default"]
                ELSE Kept])

\* material_indices of apply_soil_material_system (lines 1759-1768).
SoilMaterialIndices(main_texture_path, z_texture_path) ==
    LET keys == (IF main_texture_path # None THEN {"main"} ELSE {})
                    \cup (IF z_texture_path # None THEN {"z"} ELSE {})
    IN [k \in (IF keys = {} THEN {"default"} ELSE keys) |->
           IF k = "z" /\ main_texture_path # None THEN 1 ELSE 0]

\* apply_soil_material_system, lines 1783-1808.
SoilSystemIndices(obj, main_texture_path, z_texture_path) ==
    Loop([i \in 1..Len(obj.polygons) |->
        LET faces == find_all_directional_faces(obj)
            material_indices == SoilMaterialIndices(main_texture_path, z_texture_path)
        IN IF InFaces(i - 1, faces["z"])
           THEN (IF "z" \in DOMAIN material_indices THEN material_indices["z"]
                 ELSE IF "main" \in DOMAIN material_indices THEN material_indices["main"]
                 ELSE material_indices["default"])
           ELSE (IF "main" \in DOMAIN material_indices THEN material_indices["main"]
                 ELSE IF "default" \in DOMAIN material_indices THEN material_indices["default"]
                 ELSE KeyError)])

\* apply_main_model_materials: the material index of each polygon.
MainModelIndices(obj, cfg) ==
    IF cfg.material_system = "teamspawn_system"
    THEN Assigned([i \in 1..Len(obj.polygons) |-> 0])
    ELSE IF cfg.material_system = "soil_system"
    THEN SoilSystemIndices(obj, get_texture_path(cfg, "x"),
                           SoilZ(get_texture_path(cfg, "x"), get_texture_path(cfg, "z")))
    ELSE IF cfg.material_system = "minestone_system"
    THEN MinestoneSystemIndices(obj, get_texture_path(cfg, "x"), get_texture_path(cfg, "y"),
                                get_texture_path(cfg, "z"))
    ELSE IF cfg.material_system = "submodel_only"
    THEN Assigned([i \in 1..Len(obj.polygons) |-> Kept])
    ELSE DefaultSystemIndices(obj, get_texture_path(cfg, "x"), get_texture_path(cfg, "y"),
                              get_texture_path(cfg, "z"))

\* apply_main_model_materials as a function of the main model's mesh and
\* the configuration of the id.
MaxPolys == 2

FaceNormals ==
    { <<1, 0, 0>>, <<-1, 0, 0>>, <<0, 1, 0>>, <<0, 0, 1>>, <<0, 0, -1>>, <<1, 1, 0>>,
      <<0, 0, 0>> }

MainModels ==
    {[type |-> "MESH", polygons |-> ps] : ps \in UNION {[1..n -> FaceNormals] : n \in 1..MaxPolys}}

InitMaterials ==
    \E position_id \in Ids : \E mapping_data \in MappingDataFor(position_id) :
        \E obj \in MainModels :
            Fresh([obj |-> obj, position_id |-> position_id, mapping_data |-> mapping_data])

ApplyMainModelMaterials ==
    /\ last.op = "arguments"
    /\ \E cfg \in {ModelConfig(last.arg.position_id, last.arg.mapping_data)} :
          \E indices \in {MainModelIndices(last.arg.obj, cfg)} :
             Returns("apply_main_model_materials",
                 [slots |-> apply_main_model_materials(
                                [mats |-> bpy_materials, cache |-> materials],
                                last.arg.position_id, cfg).slots,
                  index |-> indices.index,
                  raised |-> indices.raised,
                  material_system |-> cfg.material_system])

NextMaterials == ApplyMainModelMaterials

SpecMaterials == InitMaterials /\ [][NextMaterials]_vars

MaterialsApplied == last.op = "apply_main_model_materials"

\* The polygons of the object that are in none of the six lists.
Unclassified(obj) ==
    {i \in 1..Len(obj.polygons) :
        \A b \in BucketNames : ~InFaces(i - 1, find_all_directional_faces(obj)[b])}

\* C17: under the default, minestone and soil material systems, after the
\* main model's materials are applied every polygon in none of the six
\* directional buckets has been assigned the slot of the default
\* material; none is left without an assignment.
C17_UnclassifiedGetFallbackSlot ==
    (MaterialsApplied
        /\ last.result.material_system \in {"default_system", "minestone_system", "soil_system"}) =>
        \A i \in Unclassified(last.arg.obj) :
            /\ last.result.index[i] # Kept
            /\ last.result.index[i] + 1 \in 1..Len(last.result.slots)
            /\ last.result.slots[last.result.index[i] + 1]
                  = get_default_material_name(last.arg.position_id)

\* find_all_directional_faces as a function of the object: a mesh of one
\* polygon with any normal of the grid, a mesh of two polygons with normals
\* along or between the axes, or an object that is no mesh.
FaceObjects ==
    {[type |-> "MESH", polygons |-> <<n>>] : n \in Normals}
        \cup {[type |-> "MESH", polygons |-> <<n, m>>] : n \in FaceNormals, m \in FaceNormals}
        \cup {[type |-> "EMPTY", polygons |-> << >>]}

InitFaces == \E obj \in FaceObjects : Fresh(obj)

FindAllDirectionalFaces ==
    /\ last.op = "arguments"
    /\ Returns("find_all_directional_faces", find_all_directional_faces(last.arg))

NextFaces == FindAllDirectionalFaces

SpecFaces == InitFaces /\ [][NextFaces]_vars

FacesFound == last.op = "find_all_directional_faces"

\* The test of a bucket on a normal: the component of the normalized
\* normal along the axis is beyond 0.7 in the direction of the bucket, and
\* the two other components are below 0.3 in absolute value.  For a
\* normal n of length l > 0, c/l > 0.7 is c > 0 and 100 c c > 49 l l.
AxisOf(bucket) == IF bucket \in {"x", "neg_x"} THEN 1 ELSE IF bucket \in {"y", "neg_y"} THEN 2 ELSE 3

Meets(n, bucket) ==
    LET a == AxisOf(bucket)
        towards == IF bucket \in {"x", "y", "z"} THEN n[a] > 0 ELSE n[a] < 0
    IN /\ LengthSq(n) > 0
       /\ towards
       /\ 100 * n[a] * n[a] > 49 * LengthSq(n)
       /\ \A o \in (1..3) \ {a} : 100 * n[o] * n[o] < 9 * LengthSq(n)

\* How often an index occurs in the six lists.
Occurrences(faces, index) ==
    Cardinality(UNION {{<<b, k>> : k \in {j \in 1..Len(faces[b]) : faces[b][j] = index}} :
                          b \in BucketNames})

\* C18: find_all_directional_faces puts every polygon index in at most one
\* of the six buckets; a polygon is in a bucket exactly when its normalized
\* normal meets the test of that bucket, and a polygon that meets none of
\* the six tests, one with a zero-length normal included, is in no bucket.
C18_AtMostOneBucket ==
    FacesFound =>
        \A i \in 1..Len(last.arg.polygons) :
            /\ Occurrences(last.result, i - 1) <= 1
            /\ \A b \in BucketNames :
                  InFaces(i - 1, last.result[b]) <=> Meets(last.arg.polygons[i], b)
            /\ (\A b \in BucketNames : ~Meets(last.arg.polygons[i], b)) =>
                  Occurrences(last.result, i - 1) = 0

\* A polygon whose normal leans off the X axis by less than the tolerance
\* is in the +X bucket and in no other.
C18_Witness ==
    /\ FacesFound
    /\ last.arg.polygons = << <<4, 1, 0>> >>
    /\ last.result["x"] = <<0>>
    /\ Occurrences(last.result, 0) = 1

(***************************************************************************)
(* calculate_scaling_factor and get_world_coordinate_for_model as          *)
(* functions of their arguments.  Lengths and factors are in thousandths.  *)
(***************************************************************************)
ScaleModes == {"ONE_METER", "CUSTOM", "ORIGINAL"}

OriginalSizes == {0, 1, 2, 500, 1000, 2000, 4000}

CustomFactors == {1, 500, 1000, 2500}

UnitSizes == {100, 1000, 2000, 10000}

InitScaling ==
    \E original_size \in OriginalSizes, scale_mode \in ScaleModes,
       custom_scale_factor \in CustomFactors, base_block_size \in UnitSizes :
        Fresh([original_size |-> original_size, scale_mode |-> scale_mode,
               custom_scale_factor |-> custom_scale_factor,
               base_block_size |-> base_block_size])

CalculateScalingFactor ==
    /\ last.op = "arguments"
    /\ Returns("calculate_scaling_factor",
               calculate_scaling_factor(last.arg.original_size, last.arg.scale_mode,
                   last.arg.custom_scale_factor, last.arg.base_block_size))

NextScaling == CalculateScalingFactor

SpecScaling == InitScaling /\ [][NextScaling]_vars

Scaled == last.op = "calculate_scaling_factor"

\* The fraction f has the value num / den.
IsRatio(f, num, den) == f[2] # 0 /\ f[1] * den = num * f[2]

\* C19: calculate_scaling_factor returns 1.0 in ORIGINAL mode, the custom
\* factor in CUSTOM mode, and in ONE_METER mode the unit size divided by
\* the original max dimension when that dimension is greater than 0.001
\* and 1.0 otherwise; dimension 2.0 with unit size 1.0 gives 0.5.
C19_ScalingFactorByMode ==
    Scaled =>
        /\ last.arg.scale_mode = "ORIGINAL" => IsRatio(last.result, 1, 1)
        /\ last.arg.scale_mode = "CUSTOM" =>
              IsRatio(last.result, last.arg.custom_scale_factor, 1000)
        /\ (last.arg.scale_mode = "ONE_METER" /\ last.arg.original_size > 1) =>
              IsRatio(last.result, last.arg.base_block_size, last.arg.original_size)
        /\ (last.arg.scale_mode = "ONE_METER" /\ last.arg.original_size <= 1) =>
              IsRatio(last.result, 1, 1)
        /\ (last.arg.scale_mode = "ONE_METER" /\ last.arg.original_size = 2000
                /\ last.arg.base_block_size = 1000) => IsRatio(last.result, 1, 2)

\* Dimension 2.0 with unit size 1.0 in ONE_METER mode gives 0.5.
C19_Witness ==
    /\ Scaled
    /\ last.arg.scale_mode = "ONE_METER"
    /\ last.arg.original_size = 2000
    /\ last.arg.base_block_size = 1000
    /\ IsRatio(last.result, 1, 2)

GridValues == -1..1

\* Model dimensions; the heights are even, so that half of one is a whole
\* number of thousandths.
ModelSizes == {<<1000, 1000, 1000>>, <<1000, 2000, 500>>, <<500, 500, 2000>>}

Directions == {"EAST", "SOUTH", "WEST", "NORTH"}

InitWorld ==
    \E x \in GridValues, y \in GridValues, z \in GridValues, size \in ModelSizes,
       base_block_size \in {1000, 2000}, direction_mode \in Directions,
       use_model_center \in BOOLEAN, adjacent_mode \in BOOLEAN :
        Fresh([grid_coord |-> <<x, y, z>>, size |-> size, base_block_size |-> base_block_size,
               direction_mode |-> direction_mode, use_model_center |-> use_model_center,
               adjacent_mode |-> adjacent_mode])

GetWorldCoordinate ==
    /\ last.op = "arguments"
    /\ Returns("get_world_coordinate_for_model",
               get_world_coordinate_for_model(last.arg.grid_coord, last.arg.base_block_size,
                   last.arg.size, last.arg.direction_mode, last.arg.use_model_center,
                   last.arg.adjacent_mode))

NextWorld == GetWorldCoordinate

SpecWorld == InitWorld /\ [][NextWorld]_vars

Located == last.op = "get_world_coordinate_for_model"

\* C20: get_world_coordinate_for_model maps the grid coordinate (x, y, z)
\* to (x*dx, y*dy, z*dz) in adjacent mode and to (x*U, y*U, z*U)
\* otherwise, (dx, dy, dz) being the model dimensions and U the unit size;
\* center positioning adds dz/2 to the world Z only, base positioning adds
\* nothing; the direction argument does not change the result.
C20_WorldCoordinate ==
    Located =>
        LET g == last.arg.grid_coord
            d == last.arg.size
            U == last.arg.base_block_size
            flat == IF last.arg.adjacent_mode THEN <<g[1] * d[1], g[2] * d[2], g[3] * d[3]>>
                    ELSE <<g[1] * U, g[2] * U, g[3] * U>>
        IN /\ last.result[1] = flat[1]
           /\ last.result[2] = flat[2]
           /\ 2 * (last.result[3] - flat[3]) = (IF last.arg.use_model_center THEN d[3] ELSE 0)
           /\ \A direction_mode \in Directions :
                 get_world_coordinate_for_model(g, U, d, direction_mode,
                     last.arg.use_model_center, last.arg.adjacent_mode) = last.result

\* A model of height 0.5 placed below the grid plane in adjacent mode with
\* base positioning and a direction other than the default: no lift.
C20_Witness ==
    /\ Located
    /\ last.arg.grid_coord = <<1, -1, -1>>
    /\ last.arg.size = <<1000, 2000, 500>>
    /\ last.arg.adjacent_mode
    /\ ~last.arg.use_model_center
    /\ last.arg.direction_mode = "SOUTH"
    /\ last.result = <<1000, -2000, -500>>

(***************************************************************************)
(* The material deduplication pass.                                        *)
(***************************************************************************)
CleanupStep == ops' = ops + 1 /\ last'.op = "cleanup_duplicate_materials"

\* material.users > 0 for a material of bpy.data.materials
Referenced(n) == Used(objects, orphan_refs, n)

\* The cache keys under which the manager holds the material object n.
KeysOf(cache, n) == {k \in DOMAIN cache : cache[k] = n}

\* C21: the deduplication pass keeps the first BlockMat_ material of each
\* group of names equal up to a ".NNN" suffix and removes every other
\* material of the group that has no remaining reference; a material that
\* still has references is not removed, from the materials of the file or
\* from the manager.
C21_DedupRemovesOnlyUnreferenced ==
    [][CleanupStep =>
          \A n \in DOMAIN bpy_materials :
              IF n \in DuplicateMaterials(bpy_materials) /\ ~Referenced(n)
              THEN n \notin DOMAIN bpy_materials'
              ELSE /\ n \in DOMAIN bpy_materials'
                   /\ KeysOf(materials, n) \subseteq KeysOf(materials', n)]_vars

\* C22: for every record that is not teamspawn, need_main_model is true
\* exactly when main_texture_prefix is not empty, with or without a
\* submodel name; it is false when both are empty, when only the submodel
\* name is present, and for an absent record.
C22_NeedMainModelByPrefix ==
    (Constructed /\ last.result.blocktype # "teamspawn") =>
        /\ last.result.main_texture_prefix =
              (IF last.arg.mapping_data.present
               THEN last.arg.mapping_data.main_texture_prefix ELSE "")
        /\ last.result.need_main_model = (last.result.main_texture_prefix # "")

\* A copier record with a main texture prefix and a submodel name.
C22_Witness ==
    /\ Constructed
    /\ last.arg.mapping_data.blocktype = "copier"
    /\ last.arg.mapping_data.main_texture_prefix = "grass"
    /\ last.arg.mapping_data.submodel_name = "flag"
    /\ last.result.submodel_name = "flag"
    /\ last.result.need_main_model

(***************************************************************************)
(* The submodel probe of ModelConfig.__init__ as a function of the         *)
(* arguments and of the files on disk.                                     *)
(***************************************************************************)
ProbeRecords ==
    {AbsentRecord} \cup
    {[present |-> TRUE, position_id |-> position_id, blocktype |-> b,
      main_texture_prefix |-> p, submodel_name |-> s, z_texture_prefix |-> s] :
        position_id \in Ids, b \in {"grass", "copier", "teamspawn"},
        p \in {"", "grass"}, s \in {"", "flag"}}

\* The disks: any of the six files the probe of submodel "flag" can ask for.
Disks(position_id) ==
    SUBSET {SubmodelCandidates(position_id, "grass", "flag")[i] : i \in 1..6}

InitProbe ==
    \E position_id \in Ids : \E mapping_data \in ProbeRecords : \E files \in Disks(position_id) :
        /\ mapping_data.present => mapping_data.position_id = position_id
        /\ Fresh([position_id |-> position_id, mapping_data |-> mapping_data, files |-> files])

ProbeSubmodel ==
    /\ last.op = "arguments"
    /\ Returns("ModelConfigOn",
               ModelConfigOn(last.arg.files, last.arg.position_id, last.arg.mapping_data))

NextProbe == ProbeSubmodel

SpecProbe == InitProbe /\ [][NextProbe]_vars

Probed == last.op = "ModelConfigOn"

\* C23: for an id that is not teamspawn and has a submodel name,
\* submodel_path is the first existing file among {name}.obj,
\* {name}_lod1.obj, {name}_lod0.obj in the folder of the id and then the
\* same three names in the shared models folder; when none of the six
\* exists the configuration is constructed with submodel_path none.
C23_SubmodelProbeOrder ==
    (/\ Probed
     /\ last.arg.mapping_data.present
     /\ last.arg.mapping_data.blocktype # "teamspawn"
     /\ last.arg.mapping_data.submodel_name # "") =>
        LET name == last.arg.mapping_data.submodel_name
            id == ToString(last.arg.position_id)
            order == << "mdl/" \o id \o "/" \o name \o ".obj",
                        "mdl/" \o id \o "/" \o name \o "_lod1.obj",
                        "mdl/" \o id \o "/" \o name \o "_lod0.obj",
                        "mdl/models/" \o name \o ".obj",
                        "mdl/models/" \o name \o "_lod1.obj",
                        "mdl/models/" \o name \o "_lod0.obj" >>
            found == {i \in 1..6 : order[i] \in last.arg.files}
        IN /\ last.result.submodel_name = name
           /\ found = {} => last.result.submodel_path = None
           /\ found # {} =>
                 \E i \in found : /\ \A j \in found : i <= j
                                  /\ last.result.submodel_path = order[i]

\* The folder of id 1 holds only flag_lod0.obj and the shared folder holds
\* flag.obj: the file of the id's folder is taken.
C23_Witness ==
    /\ Probed
    /\ last.arg.position_id = 1
    /\ last.arg.mapping_data.present
    /\ last.arg.mapping_data.blocktype = "grass"
    /\ last.arg.mapping_data.submodel_name = "flag"
    /\ last.arg.files = {"mdl/1/flag_lod0.obj", "mdl/models/flag.obj"}
    /\ last.result.submodel_path = "mdl/1/flag_lod0.obj"

\* No file of the six exists and the configuration is constructed.
C23_WitnessNone ==
    /\ Probed
    /\ last.arg.mapping_data.present
    /\ last.arg.mapping_data.blocktype = "grass"
    /\ last.arg.mapping_data.submodel_name = "flag"
    /\ last.arg.files = {}
    /\ last.result.submodel_path = None
    /\ last.result.material_system = "default_system"

(***************************************************************************)
(* apply_minestone_material_system as a function of the main model's       *)
(* mesh and of the texture files of the id's folder.                       *)
(***************************************************************************)
MinestoneRecords(position_id) ==
    {[present |-> TRUE, position_id |-> position_id, blocktype |-> b,
      main_texture_prefix |-> "grass", submodel_name |-> "", z_texture_prefix |-> ""] :
        b \in {"minestone", "stone"}}

\* The disks: any of the four texture files of prefix "grass" in the folder
\* of the id.
TextureDisks(position_id) ==
    SUBSET {Join(Join(TextureBase, ToString(position_id)), n) :
               n \in {"grass_x.png", "grass_y.png", "grass_z.png", "grass.png"}}

InitMinestone ==
    \E position_id \in Ids : \E mapping_data \in MinestoneRecords(position_id) :
        \E obj \in MainModels : \E files \in TextureDisks(position_id) :
            Fresh([obj |-> obj, position_id |-> position_id, mapping_data |-> mapping_data,
                   files |-> files])

MinestoneResult(obj, position_id, x, y, z) ==
    [slots |-> MinestoneSlots([mats |-> bpy_materials, cache |-> materials],
                              position_id, x, y, z).slots,
     index |-> MinestoneSystemIndices(obj, x, y, z).index,
     texture |-> [face \in {"x", "y", "z"} |->
                     IF face = "x" THEN x ELSE IF face = "y" THEN y ELSE z]]

ApplyMinestoneMaterialSystem ==
    /\ last.op = "arguments"
    /\ \E cfg \in {ModelConfig(last.arg.position_id, last.arg.mapping_data)} :
          Returns("apply_minestone_material_system",
              MinestoneResult(last.arg.obj, last.arg.position_id,
                  get_minestone_texture_path_on(last.arg.files, cfg, "x"),
                  get_minestone_texture_path_on(last.arg.files, cfg, "y"),
                  get_minestone_texture_path_on(last.arg.files, cfg, "z")))

NextMinestone == ApplyMinestoneMaterialSystem

SpecMinestone == InitMinestone /\ [][NextMinestone]_vars

MinestoneApplied == last.op = "apply_minestone_material_system"

\* The polygons of the object in the two lists of a direction.
PolygonsOf(obj, face) ==
    {i \in 1..Len(obj.polygons) :
        DirectionKey(find_all_directional_faces(obj), i - 1) = face}

\* C24: under the minestone system, when a direction (X, Y or Z) has no
\* material because neither its suffixed texture nor the bare prefix.png
\* exists while another direction has one, every polygon of the direction
\* without material is assigned the slot of the default material.
C24_BucketWithoutMaterialGetsFallback ==
    MinestoneApplied =>
        \A face \in {"x", "y", "z"} :
            (/\ last.result.texture[face] = None
             /\ \E other \in {"x", "y", "z"} : last.result.texture[other] # None) =>
                \A i \in PolygonsOf(last.arg.obj, face) :
                    /\ last.result.index[i] # Kept
                    /\ last.result.index[i] + 1 \in 1..Len(last.result.slots)
                    /\ last.result.slots[last.result.index[i] + 1]
                          = get_default_material_name(last.arg.position_id)

\* A mapping line whose main-texture field packs two texture names, with
\* the submodel name in the field after it.
PackedLine(position_id, blocktype, first, second, submodel_name) ==
    MappingLine(position_id, blocktype, first \o "," \o second, submodel_name)

\* C25: when the main-texture field of a mapping line packs two texture
\* names with an embedded delimiter, the record has the first name as
\* main_texture_prefix and the second as z_texture_prefix, so that its
\* z_texture_prefix differs from its submodel_name.
C25_PackedFieldSplitAgain ==
    (Parsed /\ last.arg.exists) =>
        \A k \in DOMAIN last.result :
            (last.arg.lines[LastLineOf(last.arg.lines, k)]
                = PackedLine(7, "minestone", "hupo", "hupo1", "amber")) =>
                /\ last.result[k].main_texture_prefix = "hupo"
                /\ last.result[k].z_texture_prefix = "hupo1"
                /\ last.result[k].z_texture_prefix # last.result[k].submodel_name

\* C26: every placed instance is rotated by yaw only: its rotation about
\* the vertical (Z) axis is 0, 1, 2 or 3 quarter turns for the direction
\* EAST, SOUTH, WEST or NORTH it stores, and its rotation about the X and
\* about the Y axis is zero.
C26_YawOnly ==
    \A b \in Blocks :
        /\ objects[b].rotation[3] = get_rotation_for_direction(objects[b].direction)
        /\ objects[b].rotation[1] = 0
        /\ objects[b].rotation[2] = 0

(***************************************************************************)
(* Loading the mapping table.                                              *)
(***************************************************************************)
\* A step that sets the mapping table or its path to a parsed file.
SetMappingStep ==
    /\ ~mapping_table'.none
    /\ (mapping_table' # mapping_table \/ mapping_file_path' # mapping_file_path)

\* C27: a step that loads or reloads the mapping table replaces the mapping
\* table and its path and leaves the template, configuration and material
\* caches as they are; after it create_template_for_position_id still
\* returns the template built before for each cached id and loads
\* nothing, whether the record of the id has changed or not.
C27_LoadKeepsCaches ==
    [][SetMappingStep =>
          /\ templates' = templates
          /\ model_configs' = model_configs
          /\ materials' = materials
          /\ \A position_id \in DOMAIN templates :
                /\ (BuildNow(position_id).result)' = templates[position_id]
                /\ (BuildNow(position_id).loaded)' = {}]_vars

\* The template of id 2 was built from the teamspawn record of one file;
\* the table now loaded has a minestone record for id 2, and a build of id 2
\* returns the cached template.
C27_Witness ==
    /\ 2 \in DOMAIN templates
    /\ 2 \in DOMAIN model_configs
    /\ model_configs[2].blocktype = "teamspawn"
    /\ ~mapping_table.none
    /\ get_mapping_for_id(mapping_table, 2).blocktype = "minestone"
    /\ mapping_file_path = MappingFileB
    /\ BuildNow(2).result = templates[2]
    /\ BuildNow(2).loaded = {}

(***************************************************************************)
(* Repeated placement.                                                     *)
(***************************************************************************)
\* A call of create_block_from_template for the values of the instance a
\* under the settings st and the template cache tmpl.
PlaceAgain(a, st, tmpl) ==
    create_block_from_template(objects, tmpl, objects[a].position_id, objects[a].grid[1],
        objects[a].grid[2], objects[a].grid[3], st.base_block_size, st.direction_mode,
        st.positioning_mode = "MODEL_CENTER", st.adjacent_mode)

\* C28: a call of create_block_from_template for an (id, x, y, z) whose
\* instance exists returns that instance and leaves its location, rotation
\* and stored direction as they are (the scene is not changed at all),
\* whatever the unit size, direction and positioning mode of the call, and
\* also when the manager holds no template for the id.
C28_RepeatPlacementKeepsInstance ==
    \A a \in Blocks : \A st \in SettingsChoices : \A tmpl \in {templates, EmptyTemplates} :
        /\ PlaceAgain(a, st, tmpl).result = a
        /\ PlaceAgain(a, st, tmpl).objs[a].location = objects[a].location
        /\ PlaceAgain(a, st, tmpl).objs[a].rotation = objects[a].rotation
        /\ PlaceAgain(a, st, tmpl).objs[a].direction = objects[a].direction
        /\ PlaceAgain(a, st, tmpl).objs = objects

\* An instance placed facing SOUTH whose id has no template any more: a
\* call with the other settings returns it as it is.
C28_Witness ==
    \E a \in Blocks :
        /\ objects[a].direction = "SOUTH"
        /\ objects[a].position_id \notin DOMAIN templates
        /\ PlaceAgain(a, SettingsDefault, templates).result = a
        /\ PlaceAgain(a, SettingsDefault, templates).objs[a].rotation = objects[a].rotation

(***************************************************************************)
(* Material cache hits.                                                    *)
(***************************************************************************)
\* Texture paths a caller can pass.
TexturePaths == {None, "tex/1/grass_x.png", "tex/2/spawn.png", "tex/2/mushroom.png"}

\* What a creator returned on a hit: the cached material, nothing created.
Hit(made, mat_name) ==
    /\ made.mat = materials[mat_name]
    /\ made.mats = bpy_materials
    /\ made.cache = materials

\* clear_templates_and_configs leaves the material cache as it is.
MaterialsKept == clear_templates_and_configs(Manager).materials = materials

CacheHitsIgnoreTexture ==
    \A position_id \in Ids : \A texture_path \in TexturePaths :
        LET mw == [mats |-> bpy_materials, cache |-> materials]
        IN /\ \A face_type \in {"x", "y", "z"} :
                 get_material_name_for_face(position_id, face_type) \in DOMAIN materials =>
                     Hit(create_or_get_face_material(mw, position_id, texture_path, face_type),
                         get_material_name_for_face(position_id, face_type))
           /\ get_teamspawn_material_name(position_id) \in DOMAIN materials =>
                 Hit(create_or_get_teamspawn_material(mw, position_id, texture_path),
                     get_teamspawn_material_name(position_id))
           /\ get_default_material_name(position_id) \in DOMAIN materials =>
                 Hit(create_or_get_default_material(mw, position_id),
                     get_default_material_name(position_id))
           /\ \A submodel_name \in {"flag", "mushroom"} :
                 get_material_name_for_submodel(position_id, submodel_name, FALSE)
                         \in DOMAIN materials =>
                     Hit(create_or_get_submodel_material(mw, position_id, texture_path, None,
                                                         submodel_name),
                         get_material_name_for_submodel(position_id, submodel_name, FALSE))

\* A step that sets the mapping table leaves the cache as it is; a key that
\* stays in the cache over a step keeps its material and the material keeps
\* its textures.
CachedTextureFixed ==
    /\ SetMappingStep => materials' = materials
    /\ \A k \in (DOMAIN materials) \cap (DOMAIN materials') :
          /\ materials'[k] = materials[k]
          /\ materials[k] \in DOMAIN bpy_materials
          /\ materials'[k] \in DOMAIN bpy_materials'
          /\ bpy_materials'[materials'[k]] = bpy_materials[materials[k]]

\* C29: on a hit in the material cache the create_or_get functions return
\* the cached material of the key whatever texture path is passed and
\* create nothing; the texture bound to a key is the one of its first
\* creation and stays so through clear_templates_and_configs, mapping
\* reloads and every step that leaves the key in the cache.
C29_CachedMaterialKeepsTexture ==
    [](MaterialsKept /\ CacheHitsIgnoreTexture) /\ [][CachedTextureFixed]_vars

\* The teamspawn material of id 2 is cached with the texture of its
\* creation while the table now loaded has another record for id 2; a call
\* with another texture path returns it.
C29_Witness ==
    /\ get_teamspawn_material_name(2) \in DOMAIN materials
    /\ bpy_materials[materials[get_teamspawn_material_name(2)]].tex = "tex/2/spawn.png"
    /\ mapping_file_path = MappingFileB
    /\ get_mapping_for_id(mapping_table, 2).blocktype = "minestone"
    /\ create_or_get_teamspawn_material([mats |-> bpy_materials, cache |-> materials], 2,
                                        "tex/2/mushroom.png").mat
          = materials[get_teamspawn_material_name(2)]

(***************************************************************************)
(* Position ids without a mapping record.                                  *)
(***************************************************************************)
\* The ids a coordinate line can carry: those of the mapping files and the
\* 0 of a line of three fields.
RequestedIds == Ids \cup {0}

NoRecord(position_id) == ~get_mapping_for_id(mapping_table, position_id).present

\* A placement of the id at (x, 0, 0) after the build of its template.
PlaceAfterBuild(position_id, x) ==
    create_block_from_template(BuildNow(position_id).objs, BuildNow(position_id).templates,
        position_id, x, 0, 0, settings.base_block_size, settings.direction_mode,
        settings.positioning_mode = "MODEL_CENTER", settings.adjacent_mode)

\* C30 as stated: for a position id without a mapping record (every id
\* when no table is loaded, id 0 included) create_template_for_position_id
\* returns no template and every placement of the id fails, whatever model
\* files exist.
C30_NoRecordNoTemplate ==
    \A position_id \in RequestedIds :
        NoRecord(position_id) =>
            /\ BuildNow(position_id).result = None
            /\ \A x \in 0..MaxX : PlaceAfterBuild(position_id, x).result = None

\* C30, amended: for a position id without a mapping record and without a
\* template cached from an earlier table, the configuration is resolved
\* with empty fields, need_main_model false and no submodel,
\* create_template_for_position_id loads nothing, changes no object,
\* stores no template and returns none, and a placement of the id fails
\* at every coordinate that holds no instance of the id yet.
C30_NoRecordNoCachedTemplate ==
    \A position_id \in RequestedIds :
        (NoRecord(position_id) /\ position_id \notin DOMAIN templates) =>
            /\ BuildNow(position_id).result = None
            /\ BuildNow(position_id).loaded = {}
            /\ BuildNow(position_id).templates = templates
            /\ BuildNow(position_id).objs = objects
            /\ BuildNow(position_id).model_configs[position_id].blocktype = ""
            /\ BuildNow(position_id).model_configs[position_id].main_texture_prefix = ""
            /\ ~BuildNow(position_id).model_configs[position_id].need_main_model
            /\ BuildNow(position_id).model_configs[position_id].submodel_path = None
            /\ \A x \in 0..MaxX :
                  ~BlockExists(objects, position_id, x, 0, 0) =>
                      PlaceAfterBuild(position_id, x).result = None

\* A pass has asked for the template of id 1 under a table without a record
\* for id 1 and has got none, the file of the main model being on disk.
C30_Witness ==
    /\ last.op = "create_template"
    /\ last.arg = 1
    /\ last.result = None
    /\ ~mapping_table.none
    /\ NoRecord(1)
    /\ 1 \in DOMAIN model_configs
    /\ ~model_configs[1].need_main_model
    /\ Exists(model_configs[1].main_model_path)

====
